---------------------------- MODULE Spec2Model ----------------------------
(***************************************************************************)
(* Resource aggregation and query engine of the AWS resource inventory     *)
(* dashboard.  Two implementations live in the repository and both are     *)
(* modelled:                                                               *)
(*   - the TypeScript backend: ResourceCollector (collectAllResources and  *)
(*     the six service collectors), ResourceController (refresh, store,    *)
(*     query, summary) over the Sequelize Resource table;                  *)
(*   - backend/simple-server.js: the in-memory accounts / resources arrays *)
(*     with its own refresh, query and summary handlers.                   *)
(*                                                                         *)
(* Strings the code concatenates or searches (identifiers, names, ARNs)    *)
(* are sequences of tokens, so that a template literal is \o.  Account     *)
(* ids, regions, resource types and statuses are plain strings.  Dates are *)
(* readings of a logical clock.                                            *)
(***************************************************************************)
EXTENDS Integers, Sequences, FiniteSets, TLC

VARIABLES
    clock,            \* the reading new Date() gives
    credentialStore,  \* AuthService: keys of (global as any).credentialStore
    db,               \* the rows of the Sequelize Resource table
    pc,               \* position of the refreshAllResources handler
    queue,            \* accounts the handler's for-loop has still to visit
    entry,            \* the entry the last iteration pushed onto results
    collection,       \* the ResourceCollection of the current iteration
    providerFailed,   \* services whose provider call threw in that collection
    resources,        \* simple-server.js: let resources = []
    simplePc,         \* position of the POST /api/resources/refresh handler
    simpleQueue,      \* accounts its for-loop has still to visit
    simpleResults,    \* its results array
    simpleFetch,      \* what the provider did in its last iteration
    queryPc,          \* whether a query's response is on its way to the client
    request,          \* the query that response answers, and the server asked
    response,         \* the body handed to res.json
    accounts,         \* simple-server.js: let accounts = []
    accountTable,     \* the rows of the Sequelize Account table
    issued,           \* how many UUIDs the Account table has handed out
    inflight,         \* the account whose provider call simple-server awaits
    accountReply,     \* the last answer of an account endpoint
    fetch,            \* the promises of a collectAllResources under way
    workers,          \* concurrent refreshAccountResources handlers
    summaryPc,        \* position of a getResourceSummary handler under way
    summary,          \* what its queries have returned so far
    filters,          \* Dashboard: the filters state
    pagination        \* the pagination of the last resources response

vars == <<clock, credentialStore, db, pc, queue, entry, collection,
          providerFailed, resources, simplePc, simpleQueue, simpleResults,
          simpleFetch, queryPc, request, response, accounts, accountTable,
          issued, inflight, accountReply, fetch, workers, summaryPc, summary,
          filters, pagination>>

ctlVars == <<credentialStore, db, pc, queue, entry, collection, providerFailed>>
simpleVars == <<resources, simplePc, simpleQueue, simpleResults, simpleFetch>>
queryVars == <<queryPc, request, response>>
adminVars == <<accounts, accountTable, issued, inflight, accountReply>>
collectVars == <<fetch>>
concVars == <<workers, summaryPc, summary>>
uiVars == <<filters, pagination>>

-----------------------------------------------------------------------------
(* Bounds of the model *)

\* Largest reading of the logical clock.
MaxClock == 1

\* Most provider calls that fail within one collection of one account.
MaxFailures == 2

\* Most accounts an account store holds at a time.
MaxAccounts == 2

\* Most UUIDs the Account table hands out.
MaxIssued == 2

-----------------------------------------------------------------------------
(* Generic helpers *)

Last(s) == s[Len(s)]

Range(s) == {s[i] : i \in 1..Len(s)}

\* Array.prototype.flat on a sequence of sequences.
RECURSIVE Flat(_)
Flat(ss) == IF ss = <<>> THEN <<>> ELSE Head(ss) \o Flat(Tail(ss))

-----------------------------------------------------------------------------
(* The accounts and what the provider holds for them *)

\* The accounts table.  The first two accounts were created with access keys,
\* the third with a role ARN only, so nothing was ever stored for it in the
\* credential store.  The fourth was created with access keys and has since
\* been deactivated.
Accounts ==
    << [accountId |-> "111111111111", region |-> "us-east-1", isActive |-> TRUE,
        withKeys |-> TRUE],
       [accountId |-> "222222222222", region |-> "eu-west-1", isActive |-> TRUE,
        withKeys |-> TRUE],
       [accountId |-> "333333333333", region |-> "us-east-1", isActive |-> TRUE,
        withKeys |-> FALSE],
       [accountId |-> "444444444444", region |-> "us-east-1", isActive |-> FALSE,
        withKeys |-> TRUE] >>

AccountIds == {Accounts[i].accountId : i \in 1..Len(Accounts)}

Services == <<"ec2", "rds", "s3", "ecs", "eks", "vpc">>

ServiceSet == Range(Services)

\* The provider-native records an account may hold, per service, in the order
\* the provider lists them.  TagShape is the shape of the record's tag data:
\* absent, a list of pairs (Tags; the pairs of an ECS cluster have the fields
\* key and value, so their Key and Value are undefined) or, for an EKS
\* cluster, a key-to-value mapping.  DB instance identifiers are chosen by the
\* account's owner and are unique only within one account and region: both
\* accounts run a database called "prod".  Neither account runs ECS or EKS
\* clusters or has a VPC the provider lists.
NativePool(accountId, service) ==
    IF accountId = "111111111111" THEN
        CASE service = "ec2" ->
               << [nativeId |-> <<"i-a">>, status |-> "running",
                   Tags |-> << [Key |-> "Name", Value |-> <<"prod-web">>] >>,
                   LocationConstraint |-> "", TagShape |-> "list"],
                  [nativeId |-> <<"i-b">>, status |-> "stopped", Tags |-> <<>>,
                   LocationConstraint |-> "", TagShape |-> "list"] >>
          [] service = "rds" ->
               << [nativeId |-> <<"prod">>, status |-> "available", Tags |-> <<>>,
                   LocationConstraint |-> "", TagShape |-> "list"] >>
          [] OTHER -> <<>>
    ELSE IF accountId = "222222222222" THEN
        CASE service = "rds" ->
               << [nativeId |-> <<"prod">>, status |-> "available", Tags |-> <<>>,
                   LocationConstraint |-> "", TagShape |-> "list"] >>
          [] service = "s3" ->
               << [nativeId |-> <<"logs">>, status |-> "", Tags |-> <<>>,
                   LocationConstraint |-> "eu-west-1",
                   TagShape |-> "list"] >>
          [] OTHER -> <<>>
    ELSE IF accountId = "444444444444" THEN
        CASE service = "ec2" ->
               << [nativeId |-> <<"i-c">>, status |-> "running", Tags |-> <<>>,
                   LocationConstraint |-> "", TagShape |-> "list"] >>
          [] OTHER -> <<>>
    ELSE IF accountId = "555555555555" THEN
        CASE service = "ec2" ->
               << [nativeId |-> <<"i-t">>, status |-> "running", Tags |-> <<>>,
                   LocationConstraint |-> "", TagShape |-> "absent"] >>
          [] service = "ecs" ->
               << [nativeId |-> <<"c1">>, status |-> "ACTIVE",
                   Tags |-> << [Key |-> "", Value |-> <<>>] >>,
                   LocationConstraint |-> "", TagShape |-> "list"] >>
          [] service = "eks" ->
               << [nativeId |-> <<"k1">>, status |-> "ACTIVE", Tags |-> <<>>,
                   LocationConstraint |-> "", TagShape |-> "map"],
                  [nativeId |-> <<"k2">>, status |-> "ACTIVE", Tags |-> <<>>,
                   LocationConstraint |-> "", TagShape |-> "absent"] >>
          [] service = "vpc" ->
               << [nativeId |-> <<"vpc-1">>, status |-> "available",
                   Tags |-> << [Key |-> "Name", Value |-> <<"main">>] >>,
                   LocationConstraint |-> "", TagShape |-> "list"] >>
          [] OTHER -> <<>>
    ELSE <<>>

\* What one service's provider calls did in one collection: they threw
\* (fails), or listed the records (a subsequence of the pool).
NativeOutcomes(accountId, service, failing) ==
    IF service \in failing
    THEN {[fails |-> TRUE, records |-> <<>>]}
    ELSE LET pool == NativePool(accountId, service)
         IN  {[fails |-> FALSE,
               records |-> SelectSeq(pool, LAMBDA n : n.nativeId \in chosen)] :
                 chosen \in SUBSET {pool[i].nativeId : i \in 1..Len(pool)}}

\* What the provider did for the six services in one collection.
OutcomeChoices(accountId, failing) ==
    {[ec2 |-> e, rds |-> r, s3 |-> b, ecs |-> c, eks |-> k, vpc |-> v] :
        e \in NativeOutcomes(accountId, "ec2", failing),
        r \in NativeOutcomes(accountId, "rds", failing),
        b \in NativeOutcomes(accountId, "s3", failing),
        c \in NativeOutcomes(accountId, "ecs", failing),
        k \in NativeOutcomes(accountId, "eks", failing),
        v \in NativeOutcomes(accountId, "vpc", failing)}

\* The sets of services that may fail together in one collection.
FailureSets == {F \in SUBSET ServiceSet : Cardinality(F) <= MaxFailures}

-----------------------------------------------------------------------------
(* AuthService *)

\* AuthService.decryptCredentials: null without a stored entry, otherwise the
\* placeholder credentials, whose region is always us-east-1.
decryptCredentials(store, accountId) ==
    IF accountId \in store
    THEN [found |-> TRUE, accessKeyId |-> "encrypted",
          secretAccessKey |-> "encrypted", region |-> "us-east-1"]
    ELSE [found |-> FALSE, accessKeyId |-> "", secretAccessKey |-> "",
          region |-> ""]

-----------------------------------------------------------------------------
(* ResourceCollector *)

\* extractTags: the Key/Value pairs with both parts truthy, a later pair
\* replacing an earlier one with the same key.
extractTags(tags) ==
    LET good == {i \in 1..Len(tags) : tags[i].Key # "" /\ tags[i].Value # <<>>}
        keys == {tags[i].Key : i \in good}
        last(k) == CHOOSE i \in good :
                      /\ tags[i].Key = k
                      /\ \A j \in good : tags[j].Key = k => j <= i
    IN  [k \in keys |-> tags[last(k)].Value]

\* tags.Name || nativeId
NameOrId(tagMap, nativeId) ==
    IF "Name" \in DOMAIN tagMap THEN tagMap["Name"] ELSE nativeId

\* The ARN the provider gives a DB instance, an ECS cluster or an EKS cluster.
ProviderArn(service, region, accountId, kind, nativeId) ==
    <<"arn:aws:", service, ":", region, ":", accountId, kind>> \o nativeId

\* collectEC2Resources: one resource per instance that has an InstanceId.
collectEC2Resources(accountId, region, records) ==
    LET named == SelectSeq(records, LAMBDA n : n.nativeId # <<>>)
    IN  [i \in 1..Len(named) |->
           LET tags == extractTags(named[i].Tags)
           IN  [id |-> named[i].nativeId,
                accountId |-> accountId,
                region |-> region,
                resourceType |-> "ec2",
                name |-> NameOrId(tags, named[i].nativeId),
                arn |-> <<"arn:aws:ec2:", region, ":", accountId, ":instance/">>
                          \o named[i].nativeId,
                tags |-> tags,
                status |-> IF named[i].status # "" THEN named[i].status
                           ELSE "unknown"]]

\* collectRDSResources: id and name are the DBInstanceIdentifier.
collectRDSResources(accountId, region, records) ==
    LET named == SelectSeq(records, LAMBDA n : n.nativeId # <<>>)
    IN  [i \in 1..Len(named) |->
           [id |-> named[i].nativeId,
            accountId |-> accountId,
            region |-> region,
            resourceType |-> "rds",
            name |-> named[i].nativeId,
            arn |-> ProviderArn("rds", region, accountId, ":db:", named[i].nativeId),
            tags |-> extractTags(named[i].Tags),
            status |-> IF named[i].status # "" THEN named[i].status
                       ELSE "unknown"]]

\* collectS3Resources: the region is the bucket's location, us-east-1 when
\* the provider gives none; a bucket whose location call throws is left out.
collectS3Resources(accountId, records, locationFails) ==
    LET named == SelectSeq(records,
                   LAMBDA n : n.nativeId # <<>> /\ n.nativeId \notin locationFails)
    IN  [i \in 1..Len(named) |->
           [id |-> named[i].nativeId,
            accountId |-> accountId,
            region |-> IF named[i].LocationConstraint # ""
                       THEN named[i].LocationConstraint ELSE "us-east-1",
            resourceType |-> "s3",
            name |-> named[i].nativeId,
            arn |-> <<"arn:aws:s3:::">> \o named[i].nativeId,
            tags |-> << >>,
            status |-> "active"]]

\* collectECSResources: id is the cluster ARN.
collectECSResources(accountId, region, records) ==
    LET named == SelectSeq(records, LAMBDA n : n.nativeId # <<>>)
    IN  [i \in 1..Len(named) |->
           LET clusterArn == ProviderArn("ecs", region, accountId, ":cluster/",
                                         named[i].nativeId)
           IN  [id |-> clusterArn,
                accountId |-> accountId,
                region |-> region,
                resourceType |-> "ecs",
                name |-> named[i].nativeId,
                arn |-> clusterArn,
                tags |-> extractTags(named[i].Tags),
                status |-> IF named[i].status # "" THEN named[i].status
                           ELSE "unknown"]]

\* collectEKSResources: id is the cluster ARN.
collectEKSResources(accountId, region, records) ==
    LET named == SelectSeq(records, LAMBDA n : n.nativeId # <<>>)
    IN  [i \in 1..Len(named) |->
           LET clusterArn == ProviderArn("eks", region, accountId, ":cluster/",
                                         named[i].nativeId)
           IN  [id |-> clusterArn,
                accountId |-> accountId,
                region |-> region,
                resourceType |-> "eks",
                name |-> named[i].nativeId,
                arn |-> clusterArn,
                tags |-> extractTags(named[i].Tags),
                status |-> IF named[i].status # "" THEN named[i].status
                           ELSE "unknown"]]

\* collectVPCResources
collectVPCResources(accountId, region, records) ==
    LET named == SelectSeq(records, LAMBDA n : n.nativeId # <<>>)
    IN  [i \in 1..Len(named) |->
           LET tags == extractTags(named[i].Tags)
           IN  [id |-> named[i].nativeId,
                accountId |-> accountId,
                region |-> region,
                resourceType |-> "vpc",
                name |-> NameOrId(tags, named[i].nativeId),
                arn |-> <<"arn:aws:ec2:", region, ":", accountId, ":vpc/">>
                          \o named[i].nativeId,
                tags |-> tags,
                status |-> IF named[i].status # "" THEN named[i].status
                           ELSE "unknown"]]

\* Whether extractTags throws on a record's tag data: tags.forEach is not a
\* function when the data is a mapping.
TagsThrow(record) == record.TagShape = "map"

\* The first record a collector hands to extractTags that makes it throw, 0
\* when none does.  Records without an id are skipped before their tags are
\* read, and the S3 collector reads no tags.
FirstThrowing(service, records) ==
    LET bad == {i \in 1..Len(records) :
                  records[i].nativeId # <<>> /\ TagsThrow(records[i])}
    IN  IF service = "s3" \/ bad = {} THEN 0
        ELSE CHOOSE i \in bad : \A j \in bad : i <= j

\* One service collector on what the provider did.  The EC2, RDS and S3
\* collectors let an error escape (threw); the ECS, EKS and VPC collectors
\* catch it themselves, log it and return what they have pushed so far.  The
\* error is the provider's, or extractTags' on a record.
ServiceCollector(service, accountId, region, outcome, locationFails) ==
    LET swallows == service \in {"ecs", "eks", "vpc"}
        first == FirstThrowing(service, outcome.records)
        records == IF first = 0 THEN outcome.records
                   ELSE SubSeq(outcome.records, 1, first - 1)
    IN  IF outcome.fails \/ (first # 0 /\ ~swallows)
        THEN [threw |-> ~swallows, resources |-> <<>>]
        ELSE [threw |-> FALSE,
              resources |->
                CASE service = "ec2" ->
                       collectEC2Resources(accountId, region, records)
                  [] service = "rds" ->
                       collectRDSResources(accountId, region, records)
                  [] service = "s3" ->
                       collectS3Resources(accountId, records, locationFails)
                  [] service = "ecs" ->
                       collectECSResources(accountId, region, records)
                  [] service = "eks" ->
                       collectEKSResources(accountId, region, records)
                  [] OTHER ->
                       collectVPCResources(accountId, region, records)]

\* collectAllResources: each collector's promise has a catch that records a
\* CollectionError and yields []; the collection is returned whatever failed.
collectAllResources(accountId, credentials, outcomes, locationFails, now) ==
    LET run == [s \in ServiceSet |->
                  ServiceCollector(s, accountId, credentials.region, outcomes[s],
                                   locationFails)]
        threw == SelectSeq(Services, LAMBDA s : run[s].threw)
    IN  [accountId |-> accountId,
         timestamp |-> now,
         resources |-> [s \in ServiceSet |-> run[s].resources],
         errors |-> [i \in 1..Len(threw) |->
                       [service |-> threw[i], region |-> credentials.region]]]

\* A collection that holds nothing: no iteration is under way.
NoCollection ==
    [accountId |-> "", timestamp |-> 0,
     resources |-> [s \in ServiceSet |-> <<>>], errors |-> <<>>]

-----------------------------------------------------------------------------
(* ResourceController: the Resource table *)

\* The row Resource.upsert is handed for one collected resource.
ResourceRow(resource, now) ==
    [id |-> resource.id,
     accountId |-> resource.accountId,
     region |-> resource.region,
     resourceType |-> resource.resourceType,
     name |-> resource.name,
     arn |-> resource.arn,
     tags |-> resource.tags,
     status |-> resource.status,
     lastUpdated |-> now]

\* Whether the unique index on arn rejects the row: another row holds the ARN.
ArnConflict(table, row) ==
    \E r \in table : r.arn = row.arn /\ r.id # row.id

\* Upsert gone wrong: a row found under the id is destroyed and the new one
\* is created only when none was found.
UpsertDestroyElseCreate(table, row) ==
    IF \E r \in table : r.id = row.id
    THEN {r \in table : r.id # row.id}
    ELSE table \cup {row}

\* Resource.upsert: insert, or replace the row with the same primary key id.
Upsert(table, row) ==
    {r \in table : r.id # row.id} \cup {row}

\* The for-loop of storeResourceCollection from the i-th resource on; an
\* upsert that throws ends it, the rows written before it staying written.
RECURSIVE StoreFrom(_, _, _, _)
StoreFrom(table, all, i, now) ==
    IF i > Len(all) THEN [table |-> table, threw |-> FALSE]
    ELSE LET row == ResourceRow(all[i], now)
         IN  IF ArnConflict(table, row)
             THEN [table |-> table, threw |-> TRUE]
             ELSE StoreFrom(Upsert(table, row), all, i + 1, now)

\* Object.values(collection.resources).flat()
AllResources(coll) == Flat([i \in 1..Len(Services) |-> coll.resources[Services[i]]])

\* storeResourceCollection: upsert every resource of the collection.
storeResourceCollection(table, coll, now) ==
    StoreFrom(table, AllResources(coll), 1, now)

\* getResourceSummary: counts by type, status and region (one per value
\* present) of the rows the accountIds parameter selects, every row when it
\* is absent.
getResourceSummary(table, accountIds) ==
    LET rows == IF accountIds = <<>> THEN table
                ELSE {r \in table : r.accountId \in Range(accountIds)}
    IN  [total |-> Cardinality(rows),
         byType |-> [v \in {r.resourceType : r \in rows} |->
                       Cardinality({r \in rows : r.resourceType = v})],
         byStatus |-> [v \in {r.status : r \in rows} |->
                         Cardinality({r \in rows : r.status = v})],
         byRegion |-> [v \in {r.region : r \in rows} |->
                         Cardinality({r \in rows : r.region = v})]]

\* No getResourceSummary is under way.
NoSummary ==
    [accountIds |-> <<>>, total |-> 0, byType |-> <<>>, byStatus |-> <<>>,
     byRegion |-> <<>>]

-----------------------------------------------------------------------------
(* ResourceController.refreshAllResources *)

\* Account.findAll({ where: { isActive: true } })
ActiveAccountIds ==
    LET active == SelectSeq(accountTable, LAMBDA a : a.isActive)
    IN  [i \in 1..Len(active) |-> active[i].accountId]

\* No entry: the iteration under way has pushed none yet.
NoEntry ==
    [accountId |-> "", success |-> FALSE, resourceCount |-> 0, errors |-> <<>>,
     error |-> ""]

\* The handler starts: it reads the active accounts.
RefreshAllStart ==
    /\ pc = "idle"
    /\ pc' = "loop"
    /\ queue' = ActiveAccountIds
    /\ entry' = NoEntry
    /\ UNCHANGED <<clock, credentialStore, db, collection, providerFailed>>
    /\ UNCHANGED simpleVars
    /\ UNCHANGED queryVars
    /\ UNCHANGED adminVars
    /\ UNCHANGED collectVars
    /\ UNCHANGED concVars
    /\ UNCHANGED uiVars

\* RefreshNoCredentials gone wrong: the failure branch clears rows, and its
\* where clause is inverted, so it clears the rows of the other accounts.
RefreshNoCredentialsPurges ==
    /\ pc = "loop"
    /\ queue # <<>>
    /\ ~decryptCredentials(credentialStore, Head(queue)).found
    /\ entry' = [accountId |-> Head(queue), success |-> FALSE,
                 resourceCount |-> 0, errors |-> <<>>,
                 error |-> "No credentials found"]
    /\ queue' = Tail(queue)
    /\ db' = {r \in db : r.accountId = Head(queue)}
    /\ UNCHANGED <<clock, credentialStore, pc, collection, providerFailed>>
    /\ UNCHANGED simpleVars
    /\ UNCHANGED queryVars
    /\ UNCHANGED adminVars
    /\ UNCHANGED collectVars
    /\ UNCHANGED concVars
    /\ UNCHANGED uiVars

\* An iteration whose account has no stored credentials: a failure entry,
\* then continue.
RefreshNoCredentials ==
    /\ pc = "loop"
    /\ queue # <<>>
    /\ ~decryptCredentials(credentialStore, Head(queue)).found
    /\ entry' = [accountId |-> Head(queue), success |-> FALSE,
                 resourceCount |-> 0, errors |-> <<>>,
                 error |-> "No credentials found"]
    /\ queue' = Tail(queue)
    /\ UNCHANGED <<clock, credentialStore, db, pc, collection, providerFailed>>
    /\ UNCHANGED simpleVars
    /\ UNCHANGED queryVars
    /\ UNCHANGED adminVars
    /\ UNCHANGED collectVars
    /\ UNCHANGED concVars
    /\ UNCHANGED uiVars

\* An iteration up to the end of collectAllResources: the provider answers
\* each of the six collectors.
Collect ==
    /\ pc = "loop"
    /\ queue # <<>>
    /\ decryptCredentials(credentialStore, Head(queue)).found
    /\ \E failing \in FailureSets :
       \E outcomes \in OutcomeChoices(Head(queue), failing) :
       \E locationFails \in SUBSET {n.nativeId :
                                      n \in Range(NativePool(Head(queue), "s3"))} :
          /\ collection' = collectAllResources(Head(queue),
                               decryptCredentials(credentialStore, Head(queue)),
                               outcomes, locationFails, clock)
          /\ providerFailed' = failing
    /\ pc' = "store"
    /\ entry' = NoEntry
    /\ UNCHANGED <<clock, credentialStore, db, queue>>
    /\ UNCHANGED simpleVars
    /\ UNCHANGED queryVars
    /\ UNCHANGED adminVars
    /\ UNCHANGED collectVars
    /\ UNCHANGED concVars
    /\ UNCHANGED uiVars

\* An iteration whose collectAllResources never resolves: a provider call
\* gets no response, no timeout is set on the clients or around the
\* collector promises, and the loop waits on the await.
CollectStalls ==
    /\ pc = "loop"
    /\ queue # <<>>
    /\ decryptCredentials(credentialStore, Head(queue)).found
    /\ pc' = "stalled"
    /\ entry' = NoEntry
    /\ UNCHANGED <<clock, credentialStore, db, queue, collection, providerFailed>>
    /\ UNCHANGED simpleVars
    /\ UNCHANGED queryVars
    /\ UNCHANGED adminVars
    /\ UNCHANGED collectVars
    /\ UNCHANGED concVars
    /\ UNCHANGED uiVars

\* The entry an iteration pushes once its collection is stored, or the
\* failure entry of its catch when the store threw.
RefreshEntry(coll, threw) ==
    IF threw
    THEN [accountId |-> coll.accountId, success |-> FALSE,
          resourceCount |-> 0, errors |-> <<>>, error |-> "Validation error"]
    ELSE [accountId |-> coll.accountId, success |-> TRUE,
          resourceCount |-> Len(AllResources(coll)),
          errors |-> coll.errors, error |-> ""]

\* The rest of the iteration: store the collection and push the entry.
StoreCollection ==
    /\ pc = "store"
    /\ LET stored == storeResourceCollection(db, collection, clock)
       IN  /\ db' = stored.table
           /\ entry' = RefreshEntry(collection, stored.threw)
    /\ queue' = Tail(queue)
    /\ pc' = "loop"
    /\ collection' = NoCollection
    /\ providerFailed' = {}
    /\ UNCHANGED <<clock, credentialStore>>
    /\ UNCHANGED simpleVars
    /\ UNCHANGED queryVars
    /\ UNCHANGED adminVars
    /\ UNCHANGED collectVars
    /\ UNCHANGED concVars
    /\ UNCHANGED uiVars

\* The loop is over: the handler answers with the results.
RefreshAllRespond ==
    /\ pc = "loop"
    /\ queue = <<>>
    /\ pc' = "idle"
    /\ entry' = NoEntry
    /\ UNCHANGED <<clock, credentialStore, db, queue, collection, providerFailed>>
    /\ UNCHANGED simpleVars
    /\ UNCHANGED queryVars
    /\ UNCHANGED adminVars
    /\ UNCHANGED collectVars
    /\ UNCHANGED concVars
    /\ UNCHANGED uiVars

-----------------------------------------------------------------------------
(* ResourceController.refreshAccountResources *)

\* The :accountId parameters clients send.
AccountParams ==
    {"222222222222", "333333333333", "444444444444", "555555555555",
     "999999999999"}

\* The accountIds Account.findOne({ where: { accountId } }) finds.
TableAccountIds == {accountTable[i].accountId : i \in 1..Len(accountTable)}

\* The error body the handler answers with.
RefreshAccountError(accountId, code) ==
    [accountId |-> accountId, success |-> FALSE, resourceCount |-> 0,
     errors |-> <<>>, error |-> code]

\* Account.findOne({ where: { accountId } }) finds nothing: 404.
RefreshAccountNotFound ==
    /\ pc = "idle"
    /\ \E accountId \in AccountParams \ TableAccountIds :
          entry' = RefreshAccountError(accountId, "ACCOUNT_NOT_FOUND")
    /\ UNCHANGED <<clock, credentialStore, db, pc, queue, collection,
                   providerFailed>>
    /\ UNCHANGED simpleVars
    /\ UNCHANGED queryVars
    /\ UNCHANGED adminVars
    /\ UNCHANGED collectVars
    /\ UNCHANGED concVars
    /\ UNCHANGED uiVars

\* The account is found and has no stored credentials: 400.
RefreshAccountNoCredentials ==
    /\ pc = "idle"
    /\ \E accountId \in AccountParams \cap TableAccountIds :
          /\ ~decryptCredentials(credentialStore, accountId).found
          /\ entry' = RefreshAccountError(accountId, "NO_CREDENTIALS")
    /\ UNCHANGED <<clock, credentialStore, db, pc, queue, collection,
                   providerFailed>>
    /\ UNCHANGED simpleVars
    /\ UNCHANGED queryVars
    /\ UNCHANGED adminVars
    /\ UNCHANGED collectVars
    /\ UNCHANGED concVars
    /\ UNCHANGED uiVars

\* The account is found and has credentials: the handler up to the end of
\* collectAllResources.
RefreshAccountCollect ==
    /\ pc = "idle"
    /\ \E accountId \in AccountParams \cap TableAccountIds :
          /\ decryptCredentials(credentialStore, accountId).found
          /\ \E failing \in FailureSets :
             \E outcomes \in OutcomeChoices(accountId, failing) :
             \E locationFails \in SUBSET {n.nativeId :
                                            n \in Range(NativePool(accountId, "s3"))} :
                /\ collection' = collectAllResources(accountId,
                                     decryptCredentials(credentialStore, accountId),
                                     outcomes, locationFails, clock)
                /\ providerFailed' = failing
    /\ pc' = "storeOne"
    /\ entry' = NoEntry
    /\ UNCHANGED <<clock, credentialStore, db, queue>>
    /\ UNCHANGED simpleVars
    /\ UNCHANGED queryVars
    /\ UNCHANGED adminVars
    /\ UNCHANGED collectVars
    /\ UNCHANGED concVars
    /\ UNCHANGED uiVars

\* The rest of the handler: store the collection and answer, from the catch
\* when the store threw.
RefreshAccountStore ==
    /\ pc = "storeOne"
    /\ LET stored == storeResourceCollection(db, collection, clock)
       IN  /\ db' = stored.table
           /\ entry' = IF stored.threw
                       THEN RefreshAccountError(collection.accountId,
                                                "ACCOUNT_REFRESH_ERROR")
                       ELSE [accountId |-> collection.accountId,
                             success |-> TRUE,
                             resourceCount |-> Len(AllResources(collection)),
                             errors |-> collection.errors, error |-> ""]
    /\ pc' = "idle"
    /\ collection' = NoCollection
    /\ providerFailed' = {}
    /\ UNCHANGED <<clock, credentialStore, queue>>
    /\ UNCHANGED simpleVars
    /\ UNCHANGED queryVars
    /\ UNCHANGED adminVars
    /\ UNCHANGED collectVars
    /\ UNCHANGED concVars
    /\ UNCHANGED uiVars

-----------------------------------------------------------------------------
(* ResourceCollector.collectAllResources, promise by promise *)

\* refreshAccountResources reaches collectAllResources: the six collectors
\* are started and the handler awaits Promise.all.
CollectBegin ==
    /\ pc = "idle"
    /\ \E accountId \in AccountParams \cap TableAccountIds :
          /\ decryptCredentials(credentialStore, accountId).found
          /\ fetch' = [accountId |-> accountId, timestamp |-> clock,
                       pending |-> ServiceSet, failed |-> {},
                       listed |-> [s \in ServiceSet |-> <<>>],
                       resources |-> [s \in ServiceSet |-> <<>>],
                       errors |-> <<>>]
    /\ pc' = "collecting"
    /\ entry' = NoEntry
    /\ UNCHANGED <<clock, credentialStore, db, queue, collection, providerFailed>>
    /\ UNCHANGED simpleVars
    /\ UNCHANGED queryVars
    /\ UNCHANGED adminVars
    /\ UNCHANGED concVars
    /\ UNCHANGED uiVars

\* One collector's promise settles: with its resources, or through its catch,
\* which pushes a CollectionError and yields [].
FetcherSettles ==
    /\ pc = "collecting"
    /\ \E service \in fetch.pending :
       \E fails \in {f \in BOOLEAN :
                        f => Cardinality(fetch.failed) < MaxFailures} :
       \E outcome \in NativeOutcomes(fetch.accountId, service,
                                      IF fails THEN {service} ELSE {}) :
       \E locationFails \in SUBSET {n.nativeId :
                        n \in Range(NativePool(fetch.accountId, "s3"))} :
          LET region == decryptCredentials(credentialStore, fetch.accountId).region
              run == ServiceCollector(service, fetch.accountId, region, outcome,
                                      locationFails)
          IN  fetch' = [fetch EXCEPT
                          !.pending = @ \ {service},
                          !.failed = IF fails THEN @ \cup {service} ELSE @,
                          !.listed[service] = outcome.records,
                          !.resources[service] = run.resources,
                          !.errors = IF run.threw
                                     THEN Append(@, [service |-> service,
                                                     region |-> region])
                                     ELSE @]
    /\ UNCHANGED <<clock, credentialStore, db, pc, queue, entry, collection,
                   providerFailed>>
    /\ UNCHANGED simpleVars
    /\ UNCHANGED queryVars
    /\ UNCHANGED adminVars
    /\ UNCHANGED concVars
    /\ UNCHANGED uiVars

\* CollectReturn gone wrong: the handler goes on as soon as one promise has
\* settled (Promise.race for Promise.all).
CollectReturnAfterFirst ==
    /\ pc = "collecting"
    /\ fetch.pending # ServiceSet
    /\ collection' = [accountId |-> fetch.accountId,
                      timestamp |-> fetch.timestamp,
                      resources |-> fetch.resources,
                      errors |-> fetch.errors]
    /\ providerFailed' = fetch.failed
    /\ pc' = "storeOne"
    /\ UNCHANGED <<clock, credentialStore, db, queue, entry>>
    /\ UNCHANGED simpleVars
    /\ UNCHANGED queryVars
    /\ UNCHANGED adminVars
    /\ UNCHANGED collectVars
    /\ UNCHANGED concVars
    /\ UNCHANGED uiVars

\* Promise.all resolves once every promise has settled: collectAllResources
\* returns the collection and the handler goes on to store it.
CollectReturn ==
    /\ pc = "collecting"
    /\ fetch.pending = {}
    /\ collection' = [accountId |-> fetch.accountId,
                      timestamp |-> fetch.timestamp,
                      resources |-> fetch.resources,
                      errors |-> fetch.errors]
    /\ providerFailed' = fetch.failed
    /\ pc' = "storeOne"
    /\ UNCHANGED <<clock, credentialStore, db, queue, entry>>
    /\ UNCHANGED simpleVars
    /\ UNCHANGED queryVars
    /\ UNCHANGED adminVars
    /\ UNCHANGED collectVars
    /\ UNCHANGED concVars
    /\ UNCHANGED uiVars

-----------------------------------------------------------------------------
(* Concurrent requests of the backend *)

\* The requests POST /api/resources/refresh/:accountId the server handles at
\* once, and the accounts they name.
MaxWorkers == 2

ConcAccountIds == {"111111111111", "222222222222"}

\* The states the account's EC2 instances are in when a collection lists
\* them: instances are started and stopped between collections.
InstanceStates == {"running", "stopped"}

InState(outcomes, state) ==
    [outcomes EXCEPT
       !.ec2.records = [i \in 1..Len(@) |-> [@[i] EXCEPT !.status = state]]]

\* A request arrives: the handler up to the end of collectAllResources.  The
\* server takes other requests on at each of the handler's awaits.
WorkerCollect ==
    /\ Len(workers) < MaxWorkers
    /\ \E accountId \in ConcAccountIds \cap TableAccountIds :
          /\ decryptCredentials(credentialStore, accountId).found
          /\ \E outcomes \in OutcomeChoices(accountId, {}) :
             \E state \in InstanceStates :
                LET coll == collectAllResources(accountId,
                                decryptCredentials(credentialStore, accountId),
                                InState(outcomes, state), {}, clock)
                IN  workers' = Append(workers,
                                  [accountId |-> accountId,
                                   all |-> AllResources(coll),
                                   next |-> 1,
                                   pc |-> "storing"])
    /\ UNCHANGED clock
    /\ UNCHANGED ctlVars
    /\ UNCHANGED simpleVars
    /\ UNCHANGED queryVars
    /\ UNCHANGED adminVars
    /\ UNCHANGED collectVars
    /\ UNCHANGED <<summaryPc, summary>>
    /\ UNCHANGED uiVars

\* One turn of the for-loop of storeResourceCollection in one request:
\* await Resource.upsert(...).  An upsert that throws ends the handler in
\* its catch.
WorkerUpsert ==
    /\ \E w \in 1..Len(workers) :
          /\ workers[w].pc = "storing"
          /\ workers[w].next <= Len(workers[w].all)
          /\ LET row == ResourceRow(workers[w].all[workers[w].next], clock)
             IN  IF ArnConflict(db, row)
                 THEN /\ workers' = [workers EXCEPT ![w].pc = "failed"]
                      /\ db' = db
                 ELSE /\ workers' = [workers EXCEPT ![w].next = @ + 1]
                      /\ db' = Upsert(db, row)
    /\ UNCHANGED <<clock, credentialStore, pc, queue, entry, collection,
                   providerFailed>>
    /\ UNCHANGED simpleVars
    /\ UNCHANGED queryVars
    /\ UNCHANGED adminVars
    /\ UNCHANGED collectVars
    /\ UNCHANGED <<summaryPc, summary>>
    /\ UNCHANGED uiVars

\* The loop is over: the handler answers.
WorkerRespond ==
    /\ \E w \in 1..Len(workers) :
          /\ workers[w].pc = "storing"
          /\ workers[w].next > Len(workers[w].all)
          /\ workers' = [workers EXCEPT ![w].pc = "done"]
    /\ UNCHANGED clock
    /\ UNCHANGED ctlVars
    /\ UNCHANGED simpleVars
    /\ UNCHANGED queryVars
    /\ UNCHANGED adminVars
    /\ UNCHANGED collectVars
    /\ UNCHANGED <<summaryPc, summary>>
    /\ UNCHANGED uiVars

\* The accountIds parameters of the summary requests.
SummaryParams == {<<>>, <<"111111111111">>}

\* getResourceSummary, await by await: the counts by type,
SummaryByType ==
    /\ summaryPc = "idle"
    /\ \E accountIds \in SummaryParams :
          summary' = [NoSummary EXCEPT
                        !.accountIds = accountIds,
                        !.byType = getResourceSummary(db, accountIds).byType]
    /\ summaryPc' = "byType"
    /\ UNCHANGED clock
    /\ UNCHANGED ctlVars
    /\ UNCHANGED simpleVars
    /\ UNCHANGED queryVars
    /\ UNCHANGED adminVars
    /\ UNCHANGED collectVars
    /\ UNCHANGED workers
    /\ UNCHANGED uiVars

\* the counts by status,
SummaryByStatus ==
    /\ summaryPc = "byType"
    /\ summary' = [summary EXCEPT
                     !.byStatus = getResourceSummary(db, summary.accountIds).byStatus]
    /\ summaryPc' = "byStatus"
    /\ UNCHANGED clock
    /\ UNCHANGED ctlVars
    /\ UNCHANGED simpleVars
    /\ UNCHANGED queryVars
    /\ UNCHANGED adminVars
    /\ UNCHANGED collectVars
    /\ UNCHANGED workers
    /\ UNCHANGED uiVars

\* the counts by region,
SummaryByRegion ==
    /\ summaryPc = "byStatus"
    /\ summary' = [summary EXCEPT
                     !.byRegion = getResourceSummary(db, summary.accountIds).byRegion]
    /\ summaryPc' = "byRegion"
    /\ UNCHANGED clock
    /\ UNCHANGED ctlVars
    /\ UNCHANGED simpleVars
    /\ UNCHANGED queryVars
    /\ UNCHANGED adminVars
    /\ UNCHANGED collectVars
    /\ UNCHANGED workers
    /\ UNCHANGED uiVars

\* Resource.count, and the response is sent.
SummaryTotal ==
    /\ summaryPc = "byRegion"
    /\ summary' = [summary EXCEPT
                     !.total = getResourceSummary(db, summary.accountIds).total]
    /\ summaryPc' = "sent"
    /\ UNCHANGED clock
    /\ UNCHANGED ctlVars
    /\ UNCHANGED simpleVars
    /\ UNCHANGED queryVars
    /\ UNCHANGED adminVars
    /\ UNCHANGED collectVars
    /\ UNCHANGED workers
    /\ UNCHANGED uiVars

\* The summary reaches the client.
SummaryDeliver ==
    /\ summaryPc = "sent"
    /\ summaryPc' = "idle"
    /\ summary' = NoSummary
    /\ UNCHANGED clock
    /\ UNCHANGED ctlVars
    /\ UNCHANGED simpleVars
    /\ UNCHANGED queryVars
    /\ UNCHANGED adminVars
    /\ UNCHANGED collectVars
    /\ UNCHANGED workers
    /\ UNCHANGED uiVars

\* Time passes.
Tick ==
    /\ clock < MaxClock
    /\ clock' = clock + 1
    /\ UNCHANGED ctlVars
    /\ UNCHANGED simpleVars
    /\ UNCHANGED queryVars
    /\ UNCHANGED adminVars
    /\ UNCHANGED collectVars
    /\ UNCHANGED concVars
    /\ UNCHANGED uiVars

-----------------------------------------------------------------------------
(* simple-server.js: POST /api/resources/refresh *)

\* The S3 block of the handler: one resource per bucket with a Name, in the
\* account's region.
SimpleBuckets(account, records, now) ==
    LET named == SelectSeq(records, LAMBDA n : n.nativeId # <<>>)
    IN  [i \in 1..Len(named) |->
           [id |-> named[i].nativeId,
            accountId |-> account.accountId,
            region |-> account.region,
            resourceType |-> "s3",
            name |-> named[i].nativeId,
            arn |-> <<"arn:aws:s3:::">> \o named[i].nativeId,
            tags |-> << >>,
            status |-> "active",
            lastUpdated |-> now]]

\* The EC2 block of the handler.
SimpleInstances(account, records, now) ==
    LET named == SelectSeq(records, LAMBDA n : n.nativeId # <<>>)
    IN  [i \in 1..Len(named) |->
           LET tags == extractTags(named[i].Tags)
           IN  [id |-> named[i].nativeId,
                accountId |-> account.accountId,
                region |-> account.region,
                resourceType |-> "ec2",
                name |-> NameOrId(tags, named[i].nativeId),
                arn |-> <<"arn:aws:ec2:", account.region, ":", account.accountId,
                          ":instance/">> \o named[i].nativeId,
                tags |-> tags,
                status |-> IF named[i].status # "" THEN named[i].status
                           ELSE "unknown",
                lastUpdated |-> now]]

\* accountResources of one iteration: nothing without credentials; otherwise
\* the buckets, then the instances, a block whose provider call throws
\* adding nothing (its catch only logs).
SimpleAccountResources(account, s3, ec2, now) ==
    IF ~account.withKeys THEN <<>>
    ELSE (IF s3.fails THEN <<>> ELSE SimpleBuckets(account, s3.records, now))
         \o (IF ec2.fails THEN <<>> ELSE SimpleInstances(account, ec2.records, now))

\* "Update resources for this account": drop the account's resources, push
\* the new ones.
SimpleReplace(all, accountId, accountResources) ==
    SelectSeq(all, LAMBDA r : r.accountId # accountId) \o accountResources

\* The entry the iteration pushes.
SimpleEntry(accountId, accountResources) ==
    [accountId |-> accountId, success |-> TRUE,
     resourceCount |-> Len(accountResources), errors |-> <<>>, error |-> ""]

NoFetch == [accountId |-> "", rejected |-> FALSE, failed |-> {}]

\* The provider calls that may throw in one iteration: none is made without
\* credentials, and both throw when the provider rejects the credentials.
SimpleFailureSets(account, rejected) ==
    IF ~account.withKeys THEN {{}}
    ELSE IF rejected THEN {{"s3", "ec2"}}
    ELSE SUBSET {"s3", "ec2"}

\* Whether the provider rejects the credentials of an account: it always
\* rejects keys it does not know, and may reject any (revoked, expired).
SimpleRejections(account) ==
    IF ~account.withKeys THEN {FALSE}
    ELSE IF account.accessKeyId # "AKIAGOOD" THEN {TRUE}
    ELSE {FALSE, TRUE}

\* No iteration is awaiting a provider call.
NoInflight ==
    [waiting |-> FALSE, next |-> 0,
     account |-> [id |-> 0, accountId |-> "", region |-> "", isActive |-> FALSE,
                  withKeys |-> FALSE, accessKeyId |-> "",
                  secretAccessKey |-> ""]]

\* The handler starts its loop over the accounts array.
SimpleRefreshStart ==
    /\ simplePc = "idle"
    /\ simplePc' = "loop"
    /\ simpleQueue' = accounts
    /\ simpleResults' = <<>>
    /\ simpleFetch' = NoFetch
    /\ UNCHANGED <<clock, resources>>
    /\ UNCHANGED ctlVars
    /\ UNCHANGED queryVars
    /\ UNCHANGED adminVars
    /\ UNCHANGED collectVars
    /\ UNCHANGED concVars
    /\ UNCHANGED uiVars

\* One iteration of the loop: skip an inactive account; otherwise fetch the
\* buckets and the instances, replace the account's resources and push the
\* entry.
SimpleRefreshAccount ==
    /\ simplePc = "loop"
    /\ ~inflight.waiting
    /\ simpleQueue # <<>>
    /\ LET account == Head(simpleQueue)
       IN  IF ~account.isActive
           THEN UNCHANGED <<resources, simpleResults, simpleFetch>>
           ELSE \E rejected \in SimpleRejections(account) :
                \E failing \in SimpleFailureSets(account, rejected) :
                \E s3 \in NativeOutcomes(account.accountId, "s3", failing) :
                \E ec2 \in NativeOutcomes(account.accountId, "ec2", failing) :
                   LET accountResources ==
                         SimpleAccountResources(account, s3, ec2, clock)
                   IN  /\ resources' = SimpleReplace(resources, account.accountId,
                                                      accountResources)
                       /\ simpleResults' = Append(simpleResults,
                             SimpleEntry(account.accountId, accountResources))
                       /\ simpleFetch' = [accountId |-> account.accountId,
                                          rejected |-> rejected,
                                          failed |-> failing]
    /\ simpleQueue' = Tail(simpleQueue)
    /\ UNCHANGED <<clock, simplePc>>
    /\ UNCHANGED ctlVars
    /\ UNCHANGED queryVars
    /\ UNCHANGED adminVars
    /\ UNCHANGED collectVars
    /\ UNCHANGED concVars
    /\ UNCHANGED uiVars

\* The loop is over: the handler answers with the results.
SimpleRefreshRespond ==
    /\ simplePc = "loop"
    /\ ~inflight.waiting
    /\ simpleQueue = <<>>
    /\ simplePc' = "idle"
    /\ simpleResults' = <<>>
    /\ simpleFetch' = NoFetch
    /\ UNCHANGED <<clock, resources, simpleQueue>>
    /\ UNCHANGED ctlVars
    /\ UNCHANGED queryVars
    /\ UNCHANGED adminVars
    /\ UNCHANGED collectVars
    /\ UNCHANGED concVars
    /\ UNCHANGED uiVars

-----------------------------------------------------------------------------
(* The query string of GET /api/resources *)

\* A query-string parameter as Express hands it to the handler: absent, one
\* string, or an array of strings.
Absent == [present |-> FALSE, isArray |-> FALSE, values |-> <<>>]

Str(s) == [present |-> TRUE, isArray |-> FALSE, values |-> <<s>>]

Arr(ss) == [present |-> TRUE, isArray |-> TRUE, values |-> ss]

\* if (param): an absent parameter and the empty string are falsy, an array
\* is truthy whatever it holds.
Truthy(p) == p.present /\ (p.isArray \/ p.values # <<"">>)

\* Array.isArray(param) ? param : [param]
AsArray(p) == p.values

\* The numerals the limit and offset parameters are drawn from.
Numerals == <<"0", "1", "2", "3">>

\* NaN, which no numeral parses to.
NaN == -1

\* parseInt: the number a numeral denotes, NaN for a string that begins
\* with no digit.
ParseInt(s) ==
    IF s \in Range(Numerals)
    THEN (CHOOSE i \in 1..Len(Numerals) : Numerals[i] = s) - 1
    ELSE NaN

\* a + b and a > b of JavaScript numbers: NaN plus anything is NaN, and no
\* comparison with NaN is true.
Plus(a, b) == IF a = NaN \/ b = NaN THEN NaN ELSE a + b

GreaterThan(a, b) == a # NaN /\ b # NaN /\ a > b

\* limit = 100 in the backend's destructuring of req.query
DefaultLimit == 100

\* limit = 50 in simple-server's
SimpleDefaultLimit == 50

\* offset = 0 in both
DefaultOffset == 0

\* parseInt(limit), parseInt(offset) after the destructuring defaults.
LimitOf(q, default) ==
    IF q.limit.present THEN ParseInt(q.limit.values[1]) ELSE default

OffsetOf(q) ==
    IF q.offset.present THEN ParseInt(q.offset.values[1]) ELSE DefaultOffset

\* toLowerCase of a token; the tokens of collected resources are already in
\* lower case.
ToLowerCase(token) == IF token = "PROD" THEN "prod" ELSE token

\* The regions resources are collected in.
Regions == {"us-east-1", "eu-west-1"}

\* The query strings clients send.  A search term is a string of whole
\* tokens, the empty one standing for an absent or empty parameter.
Requests ==
    {[accountIds |-> a, regions |-> g, resourceTypes |-> tu[1],
      statuses |-> tu[2], search |-> w, limit |-> l, offset |-> o] :
        a \in {Absent, Arr(<<"222222222222">>),
               Arr(<<"111111111111", "222222222222">>)},
        g \in {Absent, Arr(<<"us-east-1">>)},
        tu \in {<<Absent, Absent>>, <<Str("rds"), Absent>>,
                <<Absent, Str("available")>>},
        w \in {<<>>, <<"PROD">>, <<"%">>},
        l \in {Absent, Str("0"), Str("1"), Str("abc")},
        o \in {Absent, Str("1")}}

-----------------------------------------------------------------------------
(* ResourceController.getResources *)

\* column ILIKE pattern, "%" standing for any run of characters; letters
\* compare without regard to case.
RECURSIVE ILike(_, _)
ILike(text, pattern) ==
    IF pattern = <<>> THEN text = <<>>
    ELSE IF Head(pattern) = "%"
         THEN \/ ILike(text, Tail(pattern))
              \/ (text # <<>> /\ ILike(Tail(text), pattern))
         ELSE /\ text # <<>>
              /\ ToLowerCase(Head(text)) = ToLowerCase(Head(pattern))
              /\ ILike(Tail(text), Tail(pattern))

\* whereClause fields gone wrong: a row passes when any populated field
\* accepts it.
whereClauseAnyField(r, q) ==
    LET fields == {f \in {"accountIds", "regions", "resourceTypes", "statuses"} :
                     Truthy(q[f])}
        column == [f \in {"accountIds", "regions", "resourceTypes", "statuses"} |->
                     CASE f = "accountIds" -> r.accountId
                       [] f = "regions" -> r.region
                       [] f = "resourceTypes" -> r.resourceType
                       [] OTHER -> r.status]
    IN  /\ fields # {} => \E f \in fields : column[f] \in Range(AsArray(q[f]))
        /\ q.search # <<>> =>
              \/ ILike(r.name, <<"%">> \o q.search \o <<"%">>)
              \/ ILike(r.arn, <<"%">> \o q.search \o <<"%">>)
              \/ ILike(r.id, <<"%">> \o q.search \o <<"%">>)

\* Whether a row satisfies the whereClause the handler builds: Op.in per
\* populated field, Op.or of three Op.iLike for a search term.
whereClause(r, q) ==
    /\ Truthy(q.accountIds) => r.accountId \in Range(AsArray(q.accountIds))
    /\ Truthy(q.regions) => r.region \in Range(AsArray(q.regions))
    /\ Truthy(q.resourceTypes) => r.resourceType \in Range(AsArray(q.resourceTypes))
    /\ Truthy(q.statuses) => r.status \in Range(AsArray(q.statuses))
    /\ q.search # <<>> =>
          \/ ILike(r.name, <<"%">> \o q.search \o <<"%">>)
          \/ ILike(r.arn, <<"%">> \o q.search \o <<"%">>)
          \/ ILike(r.id, <<"%">> \o q.search \o <<"%">>)

\* order: [['lastUpdated', 'DESC']]: the orders the database may return the
\* rows in; rows with the same lastUpdated come in any order.
RECURSIVE OrderedByLastUpdated(_)
OrderedByLastUpdated(rows) ==
    IF rows = {} THEN {<<>>}
    ELSE UNION {{<<r>> \o rest : rest \in OrderedByLastUpdated(rows \ {r})} :
                  r \in {x \in rows : \A y \in rows : y.lastUpdated <= x.lastUpdated}}

\* LIMIT limit OFFSET offset, and Array.prototype.slice(offset, offset + limit)
\* (slice reads a NaN bound as 0, and the end is NaN when either is).
Slice(rows, offset, limit) ==
    IF offset = NaN \/ limit = NaN THEN <<>>
    ELSE IF offset >= Len(rows) \/ limit = 0 THEN <<>>
    ELSE SubSeq(rows, offset + 1,
                IF offset + limit < Len(rows) THEN offset + limit ELSE Len(rows))

\* The body of the handler's catch: findAndCountAll threw.
FetchError(now) ==
    [success |-> FALSE, resources |-> <<>>, total |-> 0, limit |-> 0,
     offset |-> 0, hasMore |-> FALSE, timestamp |-> now]

\* getResources gone wrong: hasMore is already true when the page ends
\* exactly at the last matching row.
getResourcesHasMoreAtEnd(table, q, now) ==
    LET rows == {r \in table : whereClause(r, q)}
        limit == LimitOf(q, DefaultLimit)
        offset == OffsetOf(q)
    IN  IF limit = NaN \/ offset = NaN THEN {FetchError(now)}
        ELSE {[success |-> TRUE,
               resources |-> Slice(ordered, offset, limit),
               total |-> Cardinality(rows),
               limit |-> limit,
               offset |-> offset,
               hasMore |-> Cardinality(rows) >= offset + limit,
               timestamp |-> now] : ordered \in OrderedByLastUpdated(rows)}

\* The bodies getResources may answer a query with.  The database rejects
\* the statement when LIMIT or OFFSET is NaN, and the catch answers.
getResources(table, q, now) ==
    LET rows == {r \in table : whereClause(r, q)}
        limit == LimitOf(q, DefaultLimit)
        offset == OffsetOf(q)
    IN  IF limit = NaN \/ offset = NaN THEN {FetchError(now)}
        ELSE {[success |-> TRUE,
               resources |-> Slice(ordered, offset, limit),
               total |-> Cardinality(rows),
               limit |-> limit,
               offset |-> offset,
               hasMore |-> GreaterThan(Cardinality(rows), Plus(offset, limit)),
               timestamp |-> now] : ordered \in OrderedByLastUpdated(rows)}

NoRequest ==
    [server |-> "",
     query |-> [accountIds |-> Absent, regions |-> Absent,
                resourceTypes |-> Absent, statuses |-> Absent, search |-> <<>>,
                limit |-> Absent, offset |-> Absent]]

NoResponse ==
    [success |-> FALSE, resources |-> <<>>, total |-> 0, limit |-> 0,
     offset |-> 0, hasMore |-> FALSE, timestamp |-> 0]

\* GET /api/resources of the backend: the handler from the query string to
\* res.json.
GetResources ==
    /\ queryPc = "idle"
    /\ \E q \in Requests : \E body \in getResources(db, q, clock) :
          /\ request' = [server |-> "backend", query |-> q]
          /\ response' = body
    /\ queryPc' = "sent"
    /\ UNCHANGED clock
    /\ UNCHANGED ctlVars
    /\ UNCHANGED simpleVars
    /\ UNCHANGED adminVars
    /\ UNCHANGED collectVars
    /\ UNCHANGED concVars
    /\ UNCHANGED uiVars

-----------------------------------------------------------------------------
(* simple-server.js: GET /api/resources *)

\* String.prototype.includes
Includes(text, term) ==
    \E i \in 1..(Len(text) - Len(term) + 1) :
       SubSeq(text, i, i + Len(term) - 1) = term

\* toLowerCase of a string.
LowerCased(text) == [i \in 1..Len(text) |-> ToLowerCase(text[i])]

\* The filters the handler applies one after the other; it reads no statuses
\* parameter.
SimpleFilter(r, q) ==
    /\ Truthy(q.accountIds) => r.accountId \in Range(AsArray(q.accountIds))
    /\ Truthy(q.regions) => r.region \in Range(AsArray(q.regions))
    /\ Truthy(q.resourceTypes) => r.resourceType \in Range(AsArray(q.resourceTypes))
    /\ q.search # <<>> =>
          \/ Includes(LowerCased(r.name), LowerCased(q.search))
          \/ Includes(LowerCased(r.id), LowerCased(q.search))
          \/ Includes(LowerCased(r.arn), LowerCased(q.search))

\* The body the handler answers a query with.
SimpleGetResourcesBody(all, q, now) ==
    LET filteredResources == SelectSeq(all, LAMBDA r : SimpleFilter(r, q))
        limit == LimitOf(q, SimpleDefaultLimit)
        offset == OffsetOf(q)
    IN  [success |-> TRUE,
         resources |-> Slice(filteredResources, offset, limit),
         total |-> Len(filteredResources),
         limit |-> limit,
         offset |-> offset,
         hasMore |-> GreaterThan(Len(filteredResources), Plus(offset, limit)),
         timestamp |-> now]

\* GET /api/resources of simple-server.js.
SimpleGetResources ==
    /\ queryPc = "idle"
    /\ \E q \in Requests :
          /\ request' = [server |-> "simple", query |-> q]
          /\ response' = SimpleGetResourcesBody(resources, q, clock)
    /\ queryPc' = "sent"
    /\ UNCHANGED clock
    /\ UNCHANGED ctlVars
    /\ UNCHANGED simpleVars
    /\ UNCHANGED adminVars
    /\ UNCHANGED collectVars
    /\ UNCHANGED concVars
    /\ UNCHANGED uiVars

\* GET /api/resources/summary of the backend: of the query string the
\* handler reads accountIds only.
GetResourceSummary ==
    /\ queryPc = "idle"
    /\ \E q \in Requests :
          /\ q.limit = Absent /\ q.offset = Absent
          /\ request' = [server |-> "backend", query |-> q]
          /\ response' = getResourceSummary(db,
                             IF Truthy(q.accountIds) THEN AsArray(q.accountIds)
                             ELSE <<>>)
    /\ queryPc' = "summarised"
    /\ UNCHANGED clock
    /\ UNCHANGED ctlVars
    /\ UNCHANGED simpleVars
    /\ UNCHANGED adminVars
    /\ UNCHANGED collectVars
    /\ UNCHANGED concVars
    /\ UNCHANGED uiVars

\* The body GET /api/resources/summary of simple-server.js answers with.
SimpleSummaryBody(all, q) ==
    LET filteredResources ==
          IF Truthy(q.accountIds)
          THEN SelectSeq(all, LAMBDA r : r.accountId \in Range(AsArray(q.accountIds)))
          ELSE all
        rows == 1..Len(filteredResources)
    IN  [total |-> Len(filteredResources),
         byType |-> [v \in {filteredResources[i].resourceType : i \in rows} |->
                       Cardinality({i \in rows :
                                      filteredResources[i].resourceType = v})],
         byStatus |-> [v \in {filteredResources[i].status : i \in rows} |->
                         Cardinality({i \in rows :
                                        filteredResources[i].status = v})],
         byRegion |-> [v \in {filteredResources[i].region : i \in rows} |->
                         Cardinality({i \in rows :
                                        filteredResources[i].region = v})]]

\* GET /api/resources/summary of simple-server.js.
SimpleGetSummary ==
    /\ queryPc = "idle"
    /\ \E q \in Requests :
          /\ q.limit = Absent /\ q.offset = Absent
          /\ request' = [server |-> "simple", query |-> q]
          /\ response' = SimpleSummaryBody(resources, q)
    /\ queryPc' = "summarised"
    /\ UNCHANGED clock
    /\ UNCHANGED ctlVars
    /\ UNCHANGED simpleVars
    /\ UNCHANGED adminVars
    /\ UNCHANGED collectVars
    /\ UNCHANGED concVars
    /\ UNCHANGED uiVars

\* The summary reaches the client.
DeliverSummary ==
    /\ queryPc = "summarised"
    /\ queryPc' = "idle"
    /\ request' = NoRequest
    /\ response' = NoResponse
    /\ UNCHANGED clock
    /\ UNCHANGED ctlVars
    /\ UNCHANGED simpleVars
    /\ UNCHANGED adminVars
    /\ UNCHANGED collectVars
    /\ UNCHANGED concVars
    /\ UNCHANGED uiVars

\* The response reaches the client.
Deliver ==
    /\ queryPc = "sent"
    /\ queryPc' = "idle"
    /\ request' = NoRequest
    /\ response' = NoResponse
    /\ UNCHANGED clock
    /\ UNCHANGED ctlVars
    /\ UNCHANGED simpleVars
    /\ UNCHANGED adminVars
    /\ UNCHANGED collectVars
    /\ UNCHANGED concVars
    /\ UNCHANGED uiVars

-----------------------------------------------------------------------------
(* The dashboard *)

\* A field of the filters object that is not set.
Undefined == 0 - 2

\* The filters object with no field set, and the one useState starts with.
NoFilters ==
    [accountIds |-> Absent, regions |-> Absent, resourceTypes |-> Absent,
     statuses |-> Absent, search |-> Absent, limit |-> Undefined,
     offset |-> Undefined]

InitialFilters == [NoFilters EXCEPT !.limit = 50, !.offset = 0]

\* resources?.pagination while the query for the current filters is loading.
NoPagination == [loaded |-> FALSE, total |-> 0, limit |-> 0, offset |-> 0]

\* The numbers of resources the server may count for a query.
Totals == {0, 60, 120}

\* The query for the current filters resolves: apiService.resources.getAll
\* sends limit and offset when they are truthy, and the server echoes the
\* ones it used.
LoadResources ==
    /\ ~pagination.loaded
    /\ \E total \in Totals :
          pagination' = [loaded |-> TRUE,
                         total |-> total,
                         limit |-> IF filters.limit > 0 THEN filters.limit
                                   ELSE DefaultLimit,
                         offset |-> IF filters.offset > 0 THEN filters.offset
                                    ELSE DefaultOffset]
    /\ UNCHANGED filters
    /\ UNCHANGED clock
    /\ UNCHANGED ctlVars
    /\ UNCHANGED simpleVars
    /\ UNCHANGED queryVars
    /\ UNCHANGED adminVars
    /\ UNCHANGED collectVars
    /\ UNCHANGED concVars

\* The values the controls of the FilterPanel hand to handleFilterChange:
\* the search box, the three multi-selects and the results-per-page select.
\* The panel has no control for accountIds.
ControlValues(key) ==
    CASE key = "search" -> {Absent, Str("web")}
      [] key = "resourceTypes" -> {Arr(<<>>), Arr(<<"ec2">>)}
      [] key = "regions" -> {Arr(<<>>), Arr(<<"us-east-1">>)}
      [] key = "statuses" -> {Arr(<<>>), Arr(<<"running">>)}
      [] OTHER -> {25, 50, 100, 200}

\* FilterPanel.handleFilterChange through Dashboard.handleFiltersChange:
\* setFilters({...filters, [key]: value, offset: 0}).
FilterChange ==
    /\ \E key \in {"search", "resourceTypes", "regions", "statuses", "limit"} :
       \E value \in ControlValues(key) :
          /\ filters[key] # value
          /\ filters' = [filters EXCEPT ![key] = value, !.offset = 0]
    /\ pagination' = NoPagination
    /\ UNCHANGED clock
    /\ UNCHANGED ctlVars
    /\ UNCHANGED simpleVars
    /\ UNCHANGED queryVars
    /\ UNCHANGED adminVars
    /\ UNCHANGED collectVars
    /\ UNCHANGED concVars

\* FilterPanel.clearFilters: setFilters({limit: filters.limit, offset: 0}).
ClearFilters ==
    /\ filters' = [NoFilters EXCEPT !.limit = filters.limit, !.offset = 0]
    /\ filters' # filters
    /\ pagination' = NoPagination
    /\ UNCHANGED clock
    /\ UNCHANGED ctlVars
    /\ UNCHANGED simpleVars
    /\ UNCHANGED queryVars
    /\ UNCHANGED adminVars
    /\ UNCHANGED collectVars
    /\ UNCHANGED concVars

\* The pagination models the DataGrid hands to onPaginationModelChange: the
\* shown page size with another page, or another of pageSizeOptions.
PaginationModels ==
    {[page |-> p, pageSize |-> pagination.limit] :
        p \in {q \in 0..((pagination.total - 1) \div pagination.limit) :
                 q # pagination.offset \div pagination.limit}}
    \cup {[page |-> 0, pageSize |-> size] : size \in {25, 50, 100} \ {pagination.limit}}

\* ResourceTable.handlePageChange: the object handed to setFilters.
handlePageChange(page) ==
    [NoFilters EXCEPT !.offset = page * (IF pagination.limit > 0
                                         THEN pagination.limit ELSE 50)]

\* ResourceTable.handlePageSizeChange: the object handed to setFilters.
handlePageSizeChange(pageSize) ==
    [NoFilters EXCEPT !.limit = pageSize, !.offset = 0]

\* onPaginationModelChange of the DataGrid, which is shown when the page
\* loaded has rows: handlePageChange, then handlePageSizeChange when the
\* size differs; the state is the object of the last setFilters call.
PaginationModelChange ==
    /\ pagination.loaded
    /\ pagination.offset < pagination.total
    /\ \E model \in PaginationModels :
          filters' = IF model.pageSize # pagination.limit
                     THEN handlePageSizeChange(model.pageSize)
                     ELSE handlePageChange(model.page)
    /\ pagination' = IF filters' = filters THEN pagination ELSE NoPagination
    /\ UNCHANGED clock
    /\ UNCHANGED ctlVars
    /\ UNCHANGED simpleVars
    /\ UNCHANGED queryVars
    /\ UNCHANGED adminVars
    /\ UNCHANGED collectVars
    /\ UNCHANGED concVars

-----------------------------------------------------------------------------
(* The account stores *)

\* The access keys the provider accepts, and a pair it rejects.
GoodKeys == [accessKeyId |-> "AKIAGOOD", secretAccessKey |-> "good-secret"]
BadKeys == [accessKeyId |-> "AKIABAD", secretAccessKey |-> "bad-secret"]
NoKeys == [accessKeyId |-> "", secretAccessKey |-> ""]

\* The accounts array holding Accounts, created at instants before the
\* clock's first reading (the id is Date.now() at creation).
SimpleAccountsOf(seq) ==
    [i \in 1..Len(seq) |->
       [id |-> 0 - i,
        accountId |-> seq[i].accountId,
        region |-> seq[i].region,
        isActive |-> seq[i].isActive,
        withKeys |-> seq[i].withKeys,
        accessKeyId |-> IF seq[i].withKeys THEN GoodKeys.accessKeyId ELSE "",
        secretAccessKey |-> IF seq[i].withKeys THEN GoodKeys.secretAccessKey
                            ELSE ""]]

\* The Account table holding Accounts: the key columns are never written.
AccountRowsOf(seq) ==
    [i \in 1..Len(seq) |->
       [id |-> i,
        accountId |-> seq[i].accountId,
        region |-> seq[i].region,
        isActive |-> seq[i].isActive,
        accessKeyId |-> "",
        secretAccessKey |-> ""]]

\* No account endpoint has answered.
NoReply ==
    [server |-> "", op |-> "", status |-> 0, code |-> "", data |-> <<>>,
     invalidKeys |-> FALSE]

\* No collectAllResources is under way.
NoPromises ==
    [accountId |-> "", timestamp |-> 0, pending |-> {}, failed |-> {},
     listed |-> [s \in ServiceSet |-> <<>>],
     resources |-> [s \in ServiceSet |-> <<>>], errors |-> <<>>]

\* The account stores hold Accounts; nothing else is under way.
Populated ==
    /\ accounts = SimpleAccountsOf(Accounts)
    /\ accountTable = AccountRowsOf(Accounts)
    /\ issued = Len(Accounts)
    /\ inflight = NoInflight
    /\ accountReply = NoReply

Quiet ==
    /\ fetch = NoPromises
    /\ workers = <<>>
    /\ summaryPc = "idle"
    /\ summary = NoSummary
    /\ filters = InitialFilters
    /\ pagination = NoPagination

-----------------------------------------------------------------------------
(* simple-server.js: the account endpoints *)

\* accessKeyId && secretAccessKey
HasKeys(body) == body.accessKeyId # "" /\ body.secretAccessKey # ""

\* The accountIds clients use when they manage accounts: one the provider
\* holds nothing for and one it holds an instance for.
AdminAccountIds == {"333333333333", "444444444444"}

\* The bodies of POST /api/accounts: with or without a name, an accountId
\* and a pair of access keys; the region is left to its default.
CreateBodies ==
    {[name |-> n, accountId |-> a, accessKeyId |-> k.accessKeyId,
      secretAccessKey |-> k.secretAccessKey] :
        n \in BOOLEAN, a \in AdminAccountIds \cup {""},
        k \in {NoKeys, GoodKeys, BadKeys}}

\* The bodies of PUT /api/accounts/:id: a new accountId, a pair of access
\* keys and isActive: false, each optional.
UpdateBodies ==
    {[accountId |-> a, accessKeyId |-> k.accessKeyId,
      secretAccessKey |-> k.secretAccessKey, isActive |-> v] :
        a \in AdminAccountIds \cup {""},
        k \in {NoKeys, GoodKeys, BadKeys},
        v \in {"undefined", "false"}}

\* An :id no account has.
UnknownId == 99

\* accounts.findIndex(acc => acc.id === id), 0 for -1.
FindIndex(seq, id) ==
    IF \E i \in 1..Len(seq) : seq[i].id = id
    THEN CHOOSE i \in 1..Len(seq) :
            /\ seq[i].id = id
            /\ \A j \in 1..Len(seq) : seq[j].id = id => i <= j
    ELSE 0

\* accounts.splice(index, 1)
Splice(seq, index) ==
    SubSeq(seq, 1, index - 1) \o SubSeq(seq, index + 1, Len(seq))

\* The :id parameters clients send.
IdParams(seq) == {seq[i].id : i \in 1..Len(seq)} \cup {UnknownId}

\* An error answer of an account endpoint.
ReplyError(server, op, status, code) ==
    [server |-> server, op |-> op, status |-> status, code |-> code,
     data |-> <<>>, invalidKeys |-> FALSE]

\* A success answer carrying account objects as res.json serialises them.
ReplyData(server, op, status, data) ==
    [server |-> server, op |-> op, status |-> status, code |-> "",
     data |-> data, invalidKeys |-> FALSE]

\* The answer to a request, with whether the request carried a pair of
\* access keys that fails validation.
Answer(reply, invalid) == [reply EXCEPT !.invalidKeys = invalid]

\* Whether a body carries a pair of access keys the provider rejects.
RejectedKeys(body) ==
    /\ HasKeys(body)
    /\ \/ body.accessKeyId # GoodKeys.accessKeyId
       \/ body.secretAccessKey # GoodKeys.secretAccessKey

\* A synchronous handler runs when no other handler is running: the refresh
\* handler is idle or is awaiting a provider call.
SimpleServerFree == simplePc = "idle" \/ inflight.waiting

\* GET /api/accounts
SimpleGetAccounts ==
    /\ SimpleServerFree
    /\ accountReply' = ReplyData("simple", "list", 200, accounts)
    /\ UNCHANGED <<accounts, accountTable, issued, inflight>>
    /\ UNCHANGED clock
    /\ UNCHANGED ctlVars
    /\ UNCHANGED simpleVars
    /\ UNCHANGED queryVars
    /\ UNCHANGED collectVars
    /\ UNCHANGED concVars
    /\ UNCHANGED uiVars

\* The account object POST /api/accounts builds.
SimpleNewAccount(body, now) ==
    [id |-> now,
     accountId |-> body.accountId,
     region |-> "us-east-1",
     isActive |-> TRUE,
     withKeys |-> HasKeys(body),
     accessKeyId |-> IF HasKeys(body) THEN body.accessKeyId ELSE "",
     secretAccessKey |-> IF HasKeys(body) THEN body.secretAccessKey ELSE ""]

\* POST /api/accounts
SimpleCreateAccount ==
    /\ SimpleServerFree
    /\ Len(accounts) < MaxAccounts
    /\ \E body \in CreateBodies :
          IF ~body.name \/ body.accountId = ""
          THEN /\ accountReply' = Answer(ReplyError("simple", "create", 400,
                                      "VALIDATION_ERROR"), RejectedKeys(body))
               /\ UNCHANGED accounts
          ELSE IF \E i \in 1..Len(accounts) :
                     accounts[i].accountId = body.accountId
          THEN /\ accountReply' = Answer(ReplyError("simple", "create", 409,
                                      "ACCOUNT_EXISTS"), RejectedKeys(body))
               /\ UNCHANGED accounts
          ELSE LET account == SimpleNewAccount(body, clock)
               IN  /\ accounts' = Append(accounts, account)
                   /\ accountReply' = Answer(ReplyData("simple", "create", 201,
                                         <<account>>), RejectedKeys(body))
    /\ UNCHANGED <<accountTable, issued, inflight>>
    /\ UNCHANGED clock
    /\ UNCHANGED ctlVars
    /\ UNCHANGED simpleVars
    /\ UNCHANGED queryVars
    /\ UNCHANGED collectVars
    /\ UNCHANGED concVars
    /\ UNCHANGED uiVars

\* The updatedAccount object PUT /api/accounts/:id builds.
SimpleUpdatedAccount(old, body) ==
    [id |-> old.id,
     accountId |-> IF body.accountId # "" THEN body.accountId ELSE old.accountId,
     region |-> old.region,
     isActive |-> IF body.isActive = "undefined" THEN old.isActive
                  ELSE body.isActive = "true",
     withKeys |-> old.withKeys \/ HasKeys(body),
     accessKeyId |-> IF HasKeys(body) THEN body.accessKeyId
                     ELSE old.accessKeyId,
     secretAccessKey |-> IF HasKeys(body) THEN body.secretAccessKey
                         ELSE old.secretAccessKey]

\* PUT /api/accounts/:id
SimpleUpdateAccount ==
    /\ SimpleServerFree
    /\ \E id \in IdParams(accounts) :
       \E body \in UpdateBodies :
          LET accountIndex == FindIndex(accounts, id)
          IN  IF accountIndex = 0
              THEN /\ accountReply' = Answer(ReplyError("simple", "update", 404,
                                          "ACCOUNT_NOT_FOUND"), RejectedKeys(body))
                   /\ UNCHANGED accounts
              ELSE LET updatedAccount ==
                         SimpleUpdatedAccount(accounts[accountIndex], body)
                   IN  /\ accounts' = [accounts EXCEPT
                                         ![accountIndex] = updatedAccount]
                       /\ accountReply' = Answer(ReplyData("simple", "update", 200,
                                           <<updatedAccount>>), RejectedKeys(body))
    /\ UNCHANGED <<accountTable, issued, inflight>>
    /\ UNCHANGED clock
    /\ UNCHANGED ctlVars
    /\ UNCHANGED simpleVars
    /\ UNCHANGED queryVars
    /\ UNCHANGED collectVars
    /\ UNCHANGED concVars
    /\ UNCHANGED uiVars

\* DELETE /api/accounts/:id: the account's resources go, then the account.
SimpleDeleteAccount ==
    /\ SimpleServerFree
    /\ \E id \in IdParams(accounts) :
          LET accountIndex == FindIndex(accounts, id)
          IN  IF accountIndex = 0
              THEN /\ accountReply' = ReplyError("simple", "delete", 404,
                                                 "ACCOUNT_NOT_FOUND")
                   /\ UNCHANGED <<accounts, resources>>
              ELSE /\ resources' = SelectSeq(resources,
                         LAMBDA r : r.accountId # accounts[accountIndex].accountId)
                   /\ accounts' = Splice(accounts, accountIndex)
                   /\ accountReply' = ReplyData("simple", "delete", 200, <<>>)
    /\ UNCHANGED <<accountTable, issued, inflight>>
    /\ UNCHANGED <<simplePc, simpleQueue, simpleResults, simpleFetch>>
    /\ UNCHANGED clock
    /\ UNCHANGED ctlVars
    /\ UNCHANGED queryVars
    /\ UNCHANGED collectVars
    /\ UNCHANGED concVars
    /\ UNCHANGED uiVars

\* An iteration of the refresh loop reaches its provider calls: the account
\* is active and has credentials, and the handler awaits the provider.  next
\* is the index the array iterator will read when the loop goes on.
SimpleRefreshAwait ==
    /\ simplePc = "loop"
    /\ ~inflight.waiting
    /\ simpleQueue # <<>>
    /\ Head(simpleQueue).isActive
    /\ Head(simpleQueue).withKeys
    /\ inflight' = [waiting |-> TRUE,
                    next |-> Len(accounts) - Len(simpleQueue) + 2,
                    account |-> Head(simpleQueue)]
    /\ simpleQueue' = Tail(simpleQueue)
    /\ UNCHANGED <<accounts, accountTable, issued, accountReply>>
    /\ UNCHANGED <<resources, simplePc, simpleResults, simpleFetch>>
    /\ UNCHANGED clock
    /\ UNCHANGED ctlVars
    /\ UNCHANGED queryVars
    /\ UNCHANGED collectVars
    /\ UNCHANGED concVars
    /\ UNCHANGED uiVars

\* The provider has answered: the iteration replaces the resources of the
\* account it read before the await and pushes its entry; the loop goes on
\* with what the accounts array now holds from index next on.
SimpleRefreshResume ==
    /\ simplePc = "loop"
    /\ inflight.waiting
    /\ LET account == inflight.account
       IN  \E rejected \in SimpleRejections(account) :
           \E failing \in SimpleFailureSets(account, rejected) :
           \E s3 \in NativeOutcomes(account.accountId, "s3", failing) :
           \E ec2 \in NativeOutcomes(account.accountId, "ec2", failing) :
              LET accountResources ==
                    SimpleAccountResources(account, s3, ec2, clock)
              IN  /\ resources' = SimpleReplace(resources, account.accountId,
                                                 accountResources)
                  /\ simpleResults' = Append(simpleResults,
                        SimpleEntry(account.accountId, accountResources))
                  /\ simpleFetch' = [accountId |-> account.accountId,
                                     rejected |-> rejected,
                                     failed |-> failing]
    /\ simpleQueue' = SubSeq(accounts, inflight.next, Len(accounts))
    /\ inflight' = NoInflight
    /\ UNCHANGED <<accounts, accountTable, issued, accountReply>>
    /\ UNCHANGED simplePc
    /\ UNCHANGED clock
    /\ UNCHANGED ctlVars
    /\ UNCHANGED queryVars
    /\ UNCHANGED collectVars
    /\ UNCHANGED concVars
    /\ UNCHANGED uiVars

-----------------------------------------------------------------------------
(* AccountController *)

\* ResourceCollector.validateCredentials: true when the STS call succeeds,
\* false when it throws, whether the provider rejects the keys or cannot be
\* reached.
validateCredentials(credentials, reachable) ==
    /\ reachable
    /\ credentials.accessKeyId = GoodKeys.accessKeyId
    /\ credentials.secretAccessKey = GoodKeys.secretAccessKey

\* attributes: { exclude: ['accessKeyId', 'secretAccessKey'] }
ExcludeKeys(row) == [row EXCEPT !.accessKeyId = "", !.secretAccessKey = ""]

\* order: [['createdAt', 'DESC']]
Reverse(seq) == [i \in 1..Len(seq) |-> seq[Len(seq) + 1 - i]]

\* getAccounts
GetAccounts ==
    /\ accountReply' = ReplyData("backend", "list", 200,
          Reverse([i \in 1..Len(accountTable) |-> ExcludeKeys(accountTable[i])]))
    /\ UNCHANGED <<accounts, accountTable, issued, inflight>>
    /\ UNCHANGED clock
    /\ UNCHANGED ctlVars
    /\ UNCHANGED simpleVars
    /\ UNCHANGED queryVars
    /\ UNCHANGED collectVars
    /\ UNCHANGED concVars
    /\ UNCHANGED uiVars

\* getAccount
GetAccount ==
    /\ \E id \in IdParams(accountTable) :
          LET index == FindIndex(accountTable, id)
          IN  accountReply' =
                IF index = 0
                THEN ReplyError("backend", "get", 404, "ACCOUNT_NOT_FOUND")
                ELSE ReplyData("backend", "get", 200,
                               <<ExcludeKeys(accountTable[index])>>)
    /\ UNCHANGED <<accounts, accountTable, issued, inflight>>
    /\ UNCHANGED clock
    /\ UNCHANGED ctlVars
    /\ UNCHANGED simpleVars
    /\ UNCHANGED queryVars
    /\ UNCHANGED collectVars
    /\ UNCHANGED concVars
    /\ UNCHANGED uiVars

\* The row Account.create inserts: the key columns are not among the values.
NewAccountRow(body, id) ==
    [id |-> id,
     accountId |-> body.accountId,
     region |-> "us-east-1",
     isActive |-> TRUE,
     accessKeyId |-> "",
     secretAccessKey |-> ""]

\* createAccount
CreateAccount ==
    /\ Len(accountTable) < MaxAccounts
    /\ issued < MaxIssued
    /\ \E body \in CreateBodies :
       \E reachable \in IF HasKeys(body) THEN BOOLEAN ELSE {TRUE} :
       LET invalid == HasKeys(body) /\ ~validateCredentials(body, reachable)
       IN
          IF ~body.name \/ body.accountId = ""
          THEN /\ accountReply' = Answer(ReplyError("backend", "create", 400,
                                             "VALIDATION_ERROR"), invalid)
               /\ UNCHANGED <<accountTable, issued, credentialStore>>
          ELSE IF body.accountId \in TableAccountIds
          THEN /\ accountReply' = Answer(ReplyError("backend", "create", 409,
                                             "ACCOUNT_EXISTS"), invalid)
               /\ UNCHANGED <<accountTable, issued, credentialStore>>
          ELSE IF HasKeys(body) /\ ~validateCredentials(body, reachable)
          THEN /\ accountReply' = Answer(ReplyError("backend", "create", 400,
                                             "INVALID_CREDENTIALS"), invalid)
               /\ UNCHANGED <<accountTable, issued, credentialStore>>
          ELSE LET account == NewAccountRow(body, issued + 1)
               IN  /\ credentialStore' =
                        IF HasKeys(body)
                        THEN credentialStore \cup {body.accountId}
                        ELSE credentialStore
                   /\ accountTable' = Append(accountTable, account)
                   /\ issued' = issued + 1
                   /\ accountReply' = Answer(ReplyData("backend", "create", 201,
                                                <<account>>), invalid)
    /\ UNCHANGED <<accounts, inflight>>
    /\ UNCHANGED <<clock, db, pc, queue, entry, collection, providerFailed>>
    /\ UNCHANGED simpleVars
    /\ UNCHANGED queryVars
    /\ UNCHANGED collectVars
    /\ UNCHANGED concVars
    /\ UNCHANGED uiVars

\* account.update(updateData), the keys deleted from updateData.
UpdatedAccountRow(old, body) ==
    [old EXCEPT
       !.accountId = IF body.accountId # "" THEN body.accountId ELSE @,
       !.isActive = IF body.isActive = "undefined" THEN @
                    ELSE body.isActive = "true"]

\* Whether the unique index on accountId rejects the update.
AccountIdConflict(table, index, row) ==
    \E j \in 1..Len(table) : j # index /\ table[j].accountId = row.accountId

\* updateAccount: new keys are validated and stored under the accountId the
\* row has, then the row is updated; an update the table rejects is answered
\* from the catch.
UpdateAccount ==
    /\ \E id \in IdParams(accountTable) :
       \E body \in UpdateBodies :
       \E reachable \in IF HasKeys(body) THEN BOOLEAN ELSE {TRUE} :
          LET index == FindIndex(accountTable, id)
              invalid == HasKeys(body) /\ ~validateCredentials(body, reachable)
          IN  IF index = 0
              THEN /\ accountReply' = Answer(ReplyError("backend", "update", 404,
                                                 "ACCOUNT_NOT_FOUND"), invalid)
                   /\ UNCHANGED <<accountTable, credentialStore>>
              ELSE IF HasKeys(body) /\ ~validateCredentials(body, reachable)
              THEN /\ accountReply' = Answer(ReplyError("backend", "update", 400,
                                                 "INVALID_CREDENTIALS"), invalid)
                   /\ UNCHANGED <<accountTable, credentialStore>>
              ELSE LET account == UpdatedAccountRow(accountTable[index], body)
                   IN  /\ credentialStore' =
                            IF HasKeys(body)
                            THEN credentialStore
                                   \cup {accountTable[index].accountId}
                            ELSE credentialStore
                       /\ IF AccountIdConflict(accountTable, index, account)
                          THEN /\ accountReply' = Answer(ReplyError("backend", "update",
                                                     500, "ACCOUNT_UPDATE_ERROR"), invalid)
                               /\ UNCHANGED accountTable
                          ELSE /\ accountTable' = [accountTable EXCEPT
                                                     ![index] = account]
                               /\ accountReply' = Answer(ReplyData("backend", "update",
                                                            200, <<account>>), invalid)
    /\ UNCHANGED <<accounts, issued, inflight>>
    /\ UNCHANGED <<clock, db, pc, queue, entry, collection, providerFailed>>
    /\ UNCHANGED simpleVars
    /\ UNCHANGED queryVars
    /\ UNCHANGED collectVars
    /\ UNCHANGED concVars
    /\ UNCHANGED uiVars

\* deleteAccount: the stored credentials go, then the row; the Resource
\* table is not touched.
DeleteAccount ==
    /\ \E id \in IdParams(accountTable) :
          LET index == FindIndex(accountTable, id)
          IN  IF index = 0
              THEN /\ accountReply' = ReplyError("backend", "delete", 404,
                                                 "ACCOUNT_NOT_FOUND")
                   /\ UNCHANGED <<accountTable, credentialStore>>
              ELSE /\ credentialStore' =
                        credentialStore \ {accountTable[index].accountId}
                   /\ accountTable' = Splice(accountTable, index)
                   /\ accountReply' = ReplyData("backend", "delete", 200, <<>>)
    /\ UNCHANGED <<accounts, issued, inflight>>
    /\ UNCHANGED <<clock, db, pc, queue, entry, collection, providerFailed>>
    /\ UNCHANGED simpleVars
    /\ UNCHANGED queryVars
    /\ UNCHANGED collectVars
    /\ UNCHANGED concVars
    /\ UNCHANGED uiVars

-----------------------------------------------------------------------------
(* Specifications *)

\* The accounts created with access keys: encryptCredentials stored an entry
\* for each.
KeyedAccountIds ==
    {Accounts[i].accountId : i \in {j \in 1..Len(Accounts) : Accounts[j].withKeys}}

Init ==
    /\ clock = 0
    /\ Populated
    /\ Quiet
    /\ credentialStore = KeyedAccountIds
    /\ db = {}
    /\ pc = "idle"
    /\ queue = <<>>
    /\ entry = NoEntry
    /\ collection = NoCollection
    /\ providerFailed = {}
    /\ resources = <<>>
    /\ simplePc = "idle"
    /\ simpleQueue = <<>>
    /\ simpleResults = <<>>
    /\ simpleFetch = NoFetch
    /\ queryPc = "idle"
    /\ request = NoRequest
    /\ response = NoResponse

\* The TypeScript backend refreshing.
NextCtl ==
    \/ Tick
    \/ RefreshAllStart
    \/ RefreshNoCredentials
    \/ Collect
    \/ CollectStalls
    \/ StoreCollection
    \/ RefreshAllRespond

SpecCtl == Init /\ [][NextCtl]_vars

\* The steps of the refreshAllResources handler: the event loop runs the
\* handler on whenever the promise it awaits has settled.
HandlerStep ==
    \/ RefreshNoCredentials
    \/ Collect
    \/ CollectStalls
    \/ StoreCollection
    \/ RefreshAllRespond

\* The backend refreshing single accounts.
NextAccount ==
    \/ Tick
    \/ RefreshAccountNotFound
    \/ RefreshAccountNoCredentials
    \/ RefreshAccountCollect
    \/ RefreshAccountStore

SpecAccount == Init /\ [][NextAccount]_vars

\* Nothing has been created yet: the state after the servers start.
InitAdmin ==
    /\ clock = 0
    /\ Quiet
    /\ accounts = <<>>
    /\ accountTable = <<>>
    /\ issued = 0
    /\ inflight = NoInflight
    /\ accountReply = NoReply
    /\ credentialStore = {}
    /\ db = {}
    /\ pc = "idle"
    /\ queue = <<>>
    /\ entry = NoEntry
    /\ collection = NoCollection
    /\ providerFailed = {}
    /\ resources = <<>>
    /\ simplePc = "idle"
    /\ simpleQueue = <<>>
    /\ simpleResults = <<>>
    /\ simpleFetch = NoFetch
    /\ queryPc = "idle"
    /\ request = NoRequest
    /\ response = NoResponse

\* simple-server.js: accounts managed.
NextSimpleAdmin ==
    \/ Tick
    \/ SimpleGetAccounts
    \/ SimpleCreateAccount
    \/ SimpleUpdateAccount
    \/ SimpleDeleteAccount

SpecSimpleAdmin == InitAdmin /\ [][NextSimpleAdmin]_vars

\* simple-server.js: accounts managed while resources are refreshed.
NextSimpleLive ==
    \/ SimpleCreateAccount
    \/ SimpleUpdateAccount
    \/ SimpleDeleteAccount
    \/ SimpleRefreshStart
    \/ SimpleRefreshAccount
    \/ SimpleRefreshAwait
    \/ SimpleRefreshResume
    \/ SimpleRefreshRespond

SpecSimpleLive == InitAdmin /\ [][NextSimpleLive]_vars

\* The backend: accounts managed.
NextAdmin ==
    \/ GetAccounts
    \/ GetAccount
    \/ CreateAccount
    \/ UpdateAccount
    \/ DeleteAccount

SpecAdmin == InitAdmin /\ [][NextAdmin]_vars

\* The backend: accounts managed while single accounts are refreshed.
NextAdminLive ==
    \/ CreateAccount
    \/ UpdateAccount
    \/ DeleteAccount
    \/ RefreshAccountNotFound
    \/ RefreshAccountNoCredentials
    \/ RefreshAccountCollect
    \/ RefreshAccountStore

SpecAdminLive == InitAdmin /\ [][NextAdminLive]_vars

\* The account whose provider records carry every shape of tag data is in the
\* table, with stored credentials.
TaggedAccounts ==
    << [accountId |-> "555555555555", region |-> "us-east-1", isActive |-> TRUE,
        withKeys |-> TRUE] >>

InitCollect ==
    /\ clock = 0
    /\ Quiet
    /\ accounts = SimpleAccountsOf(TaggedAccounts)
    /\ accountTable = AccountRowsOf(TaggedAccounts)
    /\ issued = Len(TaggedAccounts)
    /\ inflight = NoInflight
    /\ accountReply = NoReply
    /\ credentialStore = {TaggedAccounts[1].accountId}
    /\ db = {}
    /\ pc = "idle"
    /\ queue = <<>>
    /\ entry = NoEntry
    /\ collection = NoCollection
    /\ providerFailed = {}
    /\ resources = <<>>
    /\ simplePc = "idle"
    /\ simpleQueue = <<>>
    /\ simpleResults = <<>>
    /\ simpleFetch = NoFetch
    /\ queryPc = "idle"
    /\ request = NoRequest
    /\ response = NoResponse

\* The backend refreshing one account, its collectors settling one by one.
NextCollect ==
    \/ CollectBegin
    \/ FetcherSettles
    \/ CollectReturn
    \/ RefreshAccountStore

SpecCollect == InitCollect /\ [][NextCollect]_vars

\* The backend handling refresh and summary requests at once.
NextConc ==
    \/ WorkerCollect
    \/ WorkerUpsert
    \/ WorkerRespond
    \/ SummaryByType
    \/ SummaryByStatus
    \/ SummaryByRegion
    \/ SummaryTotal
    \/ SummaryDeliver

SpecConc == Init /\ [][NextConc]_vars

\* The dashboard page in the browser.
NextDashboard ==
    \/ LoadResources
    \/ FilterChange
    \/ ClearFilters
    \/ PaginationModelChange

SpecDashboard == Init /\ [][NextDashboard]_vars

\* One refresh after the other, the clock left aside.
NextSched ==
    \/ RefreshAllStart
    \/ RefreshNoCredentials
    \/ CollectStalls
    \/ Collect
    \/ StoreCollection
    \/ RefreshAllRespond

FairSpecCtl == Init /\ [][NextSched]_vars /\ WF_vars(HandlerStep)

\* simple-server.js refreshing.
NextSimple ==
    \/ Tick
    \/ SimpleRefreshStart
    \/ SimpleRefreshAccount
    \/ SimpleRefreshRespond

SpecSimple == Init /\ [][NextSimple]_vars

\* The collections collectAllResources can return for an account.
CollectionsWith(store, accountId, now) ==
    {collectAllResources(accountId, decryptCredentials(store, accountId),
                         outcomes, {}, now) :
        outcomes \in UNION {OutcomeChoices(accountId, failing) :
                              failing \in FailureSets}}

\* The later of two clock readings.
Later(t1, t2) == IF t1 <= t2 THEN t2 ELSE t1

\* The Resource tables a refresh leaves: the collections of the two accounts
\* with credentials stored one after the other, in the order of the loop,
\* the second no earlier than the first.
RefreshedTables ==
    UNION {{storeResourceCollection(
               storeResourceCollection({}, ca, t1).table, cb,
               Later(t1, t2)).table :
              ca \in CollectionsWith(KeyedAccountIds, Accounts[1].accountId, t1),
              cb \in CollectionsWith(KeyedAccountIds, Accounts[2].accountId,
                                     Later(t1, t2))} :
             t1 \in 0..MaxClock, t2 \in 0..MaxClock}

\* The resources arrays a refresh of simple-server leaves.
SimpleRefreshedArrays ==
    UNION {{SimpleReplace(
               SimpleReplace(<<>>, Accounts[1].accountId,
                  SimpleAccountResources(Accounts[1], s1, e1, t1)),
               Accounts[2].accountId,
               SimpleAccountResources(Accounts[2], s2, e2, Later(t1, t2))) :
              s1 \in NativeOutcomes(Accounts[1].accountId, "s3", {}),
              e1 \in NativeOutcomes(Accounts[1].accountId, "ec2", {}),
              s2 \in NativeOutcomes(Accounts[2].accountId, "s3", {}),
              e2 \in NativeOutcomes(Accounts[2].accountId, "ec2", {})} :
             t1 \in 0..MaxClock, t2 \in 0..MaxClock}

\* Queries against what refreshes have persisted.
InitQuery ==
    /\ clock = MaxClock
    /\ Populated
    /\ Quiet
    /\ credentialStore = KeyedAccountIds
    /\ \/ db \in RefreshedTables /\ resources = <<>>
       \/ db = {} /\ resources \in SimpleRefreshedArrays
    /\ pc = "idle"
    /\ queue = <<>>
    /\ entry = NoEntry
    /\ collection = NoCollection
    /\ providerFailed = {}
    /\ simplePc = "idle"
    /\ simpleQueue = <<>>
    /\ simpleResults = <<>>
    /\ simpleFetch = NoFetch
    /\ queryPc = "idle"
    /\ request = NoRequest
    /\ response = NoResponse

NextQuery ==
    \/ GetResources
    \/ SimpleGetResources
    \/ Deliver
    \/ GetResourceSummary
    \/ SimpleGetSummary
    \/ DeliverSummary

SpecQuery == InitQuery /\ [][NextQuery]_vars


-----------------------------------------------------------------------------
(* Claims about refresh and merge *)

\* The step that stores the collection of the iteration under way.
StoreStep == pc = "store" /\ pc' = "loop"

\* The step that runs one iteration of simple-server's refresh loop for an
\* active account.
SimpleIterationStep ==
    /\ simplePc = "loop"
    /\ simpleQueue # <<>>
    /\ Head(simpleQueue).isActive
    /\ simpleQueue' = Tail(simpleQueue)

\* The ids a collection reports for one service.
ReportedIds(coll, service) ==
    {coll.resources[service][i].id : i \in 1..Len(coll.resources[service])}

\* The persisted rows of one account (and one type) in the Resource table.
RowsOf(table, accountId) == {r \in table : r.accountId = accountId}

RowsOfType(table, accountId, type) ==
    {r \in table : r.accountId = accountId /\ r.resourceType = type}

\* The same for simple-server's resources array.
SimpleRowsOf(all, accountId) ==
    SelectSeq(all, LAMBDA r : r.accountId = accountId)

SimpleRowsOfType(all, accountId, type) ==
    SelectSeq(all, LAMBDA r : r.accountId = accountId /\ r.resourceType = type)

\* C1 -- Stale removal: a row persisted for (account, type) whose id a
\* successful fetch of that type for that account no longer reports is gone
\* from the Resource table once that collection is stored.
C1_StaleRemoval ==
    [][StoreStep =>
         \A r \in db :
            (/\ r.accountId = collection.accountId
             /\ r.resourceType \notin providerFailed
             /\ r.id \notin ReportedIds(collection, r.resourceType))
            => ~ \E q \in db' : q.id = r.id /\ q.accountId = r.accountId]_vars

\* C2 -- Partial-failure isolation: when the fetch of type y fails in an
\* iteration in which another type's fetch succeeds, the persisted resources
\* of (account, y) are after the iteration exactly what they were before.
C2_PartialFailureIsolation ==
    [][SimpleIterationStep =>
         \A y \in simpleFetch'.failed :
            simpleFetch'.failed # {"s3", "ec2"}
            => SimpleRowsOfType(resources', simpleFetch'.accountId, y)
                 = SimpleRowsOfType(resources, simpleFetch'.accountId, y)]_vars

\* C3 -- Identifiers are globally unique: no resource of the collection about
\* to be stored has the id (the key upsert goes by) of a persisted row of
\* another account, region or type.
C3_IdentifiersGloballyUnique ==
    pc = "store" =>
       \A i \in 1..Len(AllResources(collection)) : \A r \in db :
          AllResources(collection)[i].id = r.id
          => /\ r.accountId = AllResources(collection)[i].accountId
             /\ r.region = AllResources(collection)[i].region
             /\ r.resourceType = AllResources(collection)[i].resourceType

\* The step in which an iteration of refreshAllResources ends in failure:
\* it pushes a failure entry.
TotalFailureStep ==
    /\ pc \in {"loop", "store"}
    /\ queue # <<>>
    /\ queue' = Tail(queue)
    /\ ~entry'.success

C5_FetcherFailureCaptured ==
    pc = "store" =>
       \A s \in providerFailed :
          /\ \E i \in 1..Len(collection.errors) : collection.errors[i].service = s
          /\ collection.resources[s] = <<>>

\* C6 -- The entry of an account lists one error per service whose fetch
\* failed and counts the resources the successful fetches returned.
C6_ReportListsFailures ==
    [][SimpleIterationStep =>
         LET e == Last(simpleResults')
         IN  /\ e.accountId = simpleFetch'.accountId
             /\ Len(e.errors) = Cardinality(simpleFetch'.failed)
             /\ {e.errors[i].service : i \in 1..Len(e.errors)} = simpleFetch'.failed
             /\ e.resourceCount
                  = Len(SimpleRowsOf(resources', simpleFetch'.accountId))]_vars

\* C7 -- Credentials that are missing or rejected: the iteration of an
\* account that has persisted resources is reported as failed and those
\* resources stay as they were.
C7_CredentialFailureRetains ==
    [][(SimpleIterationStep
        /\ (~Head(simpleQueue).withKeys \/ simpleFetch'.rejected)
        /\ SimpleRowsOf(resources, Head(simpleQueue).accountId) # <<>>) =>
         /\ ~Last(simpleResults').success
         /\ SimpleRowsOf(resources', simpleFetch'.accountId)
              = SimpleRowsOf(resources, simpleFetch'.accountId)]_vars

\* The table without the lastUpdated column.
WithoutLastUpdated(table) ==
    {[id |-> r.id, accountId |-> r.accountId, region |-> r.region,
      resourceType |-> r.resourceType, name |-> r.name, arn |-> r.arn,
      tags |-> r.tags, status |-> r.status] : r \in table}

\* C8 as claimed -- Merge idempotence: storing a collection a second time,
\* right away or later, leaves the table exactly as the first store left it.
C8_MergeIdempotentExactly ==
    [][StoreStep =>
         \A t \in clock..MaxClock :
            storeResourceCollection(db', collection, t).table = db']_vars

\* C8 as amended -- storing a collection a second time leaves the table as
\* the first store left it but for the lastUpdated of the rows it upserts.
C8_MergeIdempotentUpToLastUpdated ==
    [][StoreStep =>
         \A t \in clock..MaxClock :
            WithoutLastUpdated(storeResourceCollection(db', collection, t).table)
              = WithoutLastUpdated(db')]_vars

\* C8's case: a collection with resources has just been stored, and time can
\* still pass before it would be stored again.
C8_Witness ==
    /\ pc = "loop"
    /\ entry.success
    /\ entry.resourceCount > 0
    /\ \E r \in db : r.accountId = entry.accountId /\ r.lastUpdated = clock
    /\ clock < MaxClock

\* The collections collectAllResources can return for an account.
CollectionsOf(accountId, now) ==
    CollectionsWith(credentialStore, accountId, now)

\* C9 -- Merges of two accounts commute: storing the collection under way
\* and then any collection of another account gives the same table as
\* storing them in the other order.
C9_MergesCommute ==
    pc = "store" =>
       \A b \in credentialStore \ {collection.accountId} :
          \A other \in CollectionsOf(b, clock) :
             storeResourceCollection(
                 storeResourceCollection(db, collection, clock).table,
                 other, clock).table
             = storeResourceCollection(
                 storeResourceCollection(db, other, clock).table,
                 collection, clock).table

-----------------------------------------------------------------------------
(* Claims about queries *)

\* The query with the accountIds and regions parameters given and no other.
FilterOf(accountIds, regions) ==
    [accountIds |-> accountIds, regions |-> regions, resourceTypes |-> Absent,
     statuses |-> Absent, search |-> <<>>, limit |-> Absent, offset |-> Absent]

\* The result set of a query: the persisted resources its filter matches.
Matching(table, q) == {r \in table : whereClause(r, q)}

SimpleMatching(all, q) == Range(SelectSeq(all, LAMBDA r : SimpleFilter(r, q)))

\* The result set the server asked holds for a query in the current state.
ResultSet(server, q) ==
    IF server = "backend" THEN Matching(db, q) ELSE SimpleMatching(resources, q)

\* Everything persisted at the server asked.
Persisted(server) == IF server = "backend" THEN db ELSE Range(resources)

Answers(server, q) ==
    IF server = "backend" THEN getResources(db, q, clock)
    ELSE {SimpleGetResourcesBody(resources, q, clock)}

\* The filters of the query strings clients send, limit and offset left out.
Filters == {[q EXCEPT !.limit = Absent, !.offset = Absent] : q \in Requests}

\* The query for one page of a filter.
PageOf(q, limit, offset) ==
    [q EXCEPT !.limit = Str(Numerals[limit + 1]),
              !.offset = Str(Numerals[offset + 1])]

\* What a client may collect that asks for the pages at offset,
\* offset + limit, ... one query after the other until hasMore is false.
RECURSIVE PagesFrom(_, _, _, _)
PagesFrom(server, q, limit, offset) ==
    UNION {{body.resources \o rest :
              rest \in IF body.hasMore
                       THEN PagesFrom(server, q, limit, offset + limit)
                       ELSE {<<>>}} :
             body \in Answers(server, PageOf(q, limit, offset))}

\* The page sizes clients step by.
PageLimits == {1, 2}

\* C11 -- Pagination completeness: for every filter and page size, the pages
\* from offset 0 on, concatenated, hold every matching resource exactly
\* once, in the order of an unpaginated answer.
C11_PaginationComplete ==
    queryPc = "idle" =>
       \A server \in {"backend", "simple"} : \A q \in Filters :
       \A limit \in PageLimits :
       \A pages \in PagesFrom(server, q, limit, 0) :
          /\ \A i \in 1..Len(pages) : \A j \in 1..Len(pages) :
                pages[i] = pages[j] => i = j
          /\ Range(pages) = ResultSet(server, q)
          /\ \E body \in Answers(server, q) : body.resources = pages

\* The identifiers of the collected resources in ascending order.
IdsAscending == << <<"i-a">>, <<"i-b">>, <<"logs">>, <<"prod">> >>

\* Whether a resource comes before another: later lastUpdated first, the
\* smaller identifier first among equals.
ComesBefore(x, y) ==
    \/ x.lastUpdated > y.lastUpdated
    \/ /\ x.lastUpdated = y.lastUpdated
       /\ \E i \in 1..Len(IdsAscending) : \E j \in 1..Len(IdsAscending) :
             i < j /\ IdsAscending[i] = x.id /\ IdsAscending[j] = y.id

\* C12 -- Total, deterministic order: the resources of every answer come by
\* lastUpdated descending and, among equals, by identifier ascending.
C12_TotallyOrdered ==
    (queryPc = "sent" /\ response.success) =>
       \A i \in 1..Len(response.resources) : \A j \in 1..Len(response.resources) :
          i < j => ComesBefore(response.resources[i], response.resources[j])

\* C13 -- hasMore of an answer to a query with numeric limit and offset is
\* (offset + number of resources in the page) < total, total being the
\* number of resources the filter matches.
C13_HasMore ==
    (queryPc = "sent" /\ response.success
       /\ response.limit # NaN /\ response.offset # NaN) =>
       /\ response.total
            = Cardinality(ResultSet(request.server, request.query))
       /\ response.hasMore
            = (response.offset + Len(response.resources) < response.total)

\* C13's case: a page that starts past the first matching resource and ends
\* before the last one.
C13_Witness ==
    /\ queryPc = "sent"
    /\ response.success
    /\ response.offset = 1
    /\ response.limit = 1
    /\ Len(response.resources) = 1
    /\ response.total > 2
    /\ response.hasMore

\* The number of resources a query matches that have a value in a column.
MatchingWith(server, q, column, v) ==
    Cardinality({r \in ResultSet(server, q) :
                   CASE column = "resourceType" -> r.resourceType = v
                     [] column = "status" -> r.status = v
                     [] OTHER -> r.region = v})

\* C14 -- The summary of a filter counts exactly the resources a query with
\* that filter matches: total, and per resource type, status and region.
C14_SummaryMatchesQuery ==
    queryPc = "summarised" =>
       LET matching == ResultSet(request.server, request.query)
       IN  /\ response.total = Cardinality(matching)
           /\ DOMAIN response.byType = {r.resourceType : r \in matching}
           /\ DOMAIN response.byStatus = {r.status : r \in matching}
           /\ DOMAIN response.byRegion = {r.region : r \in matching}
           /\ \A v \in DOMAIN response.byType :
                 response.byType[v]
                   = MatchingWith(request.server, request.query, "resourceType", v)
           /\ \A v \in DOMAIN response.byStatus :
                 response.byStatus[v]
                   = MatchingWith(request.server, request.query, "status", v)
           /\ \A v \in DOMAIN response.byRegion :
                 response.byRegion[v]
                   = MatchingWith(request.server, request.query, "region", v)

\* Whether a query string is structurally invalid: a limit or an offset
\* that is no number.
InvalidFilter(q) ==
    \/ q.limit.present /\ ParseInt(q.limit.values[1]) = NaN
    \/ q.offset.present /\ ParseInt(q.offset.values[1]) = NaN

\* C15 -- A query with a structurally invalid filter is rejected: its answer
\* is an error and holds no page.
C15_InvalidFilterRejected ==
    (queryPc = "sent" /\ InvalidFilter(request.query)) =>
       /\ ~response.success
       /\ response.resources = <<>>

\* Whether a term is a case-insensitive substring of a resource's name,
\* identifier or ARN.
HasSubstring(r, term) ==
    \/ Includes(LowerCased(r.name), LowerCased(term))
    \/ Includes(LowerCased(r.id), LowerCased(term))
    \/ Includes(LowerCased(r.arn), LowerCased(term))

\* C16 -- Search: an unpaginated answer to a query with a search term holds
\* exactly the resources the other filter fields match that have the term
\* as a case-insensitive substring of name, identifier or ARN.
C16_SearchIsSubstring ==
    (queryPc = "sent" /\ response.success /\ request.query.search # <<>>
       /\ request.query.limit = Absent /\ request.query.offset = Absent) =>
       Range(response.resources)
         = {r \in ResultSet(request.server,
                            [request.query EXCEPT !.search = <<>>]) :
              HasSubstring(r, request.query.search)}

-----------------------------------------------------------------------------
(* Claims about scheduling, regions and active accounts *)

\* C17 -- One account's stalling or total failure neither aborts nor delays
\* the others: an account waiting in the loop behind an account whose
\* collection never completes is still reported, and so is an account
\* waiting behind one whose iteration failed (unless a collection stalls).
C17_OthersNotDelayed ==
    \A b \in AccountIds :
       /\ (pc = "stalled" /\ b \in Range(Tail(queue))) ~> (entry.accountId = b)
       /\ (pc = "loop" /\ entry.accountId # "" /\ ~entry.success
             /\ b \in Range(queue))
            ~> (entry.accountId = b \/ pc = "stalled")

\* C18 -- collect(account) always terminates: a collection waiting for a
\* fetcher that never responds is eventually returned, with a
\* CollectionError in it.
C18_CollectTerminates ==
    (pc = "stalled") ~> (pc = "store" /\ collection.errors # <<>>)

\* The primary region of an account.
PrimaryRegion(accountId) ==
    Accounts[CHOOSE i \in 1..Len(Accounts) : Accounts[i].accountId = accountId].region

\* C19 -- Every region-scoped resource collected for an account carries the
\* account's primary region.
C19_CollectedInPrimaryRegion ==
    pc = "store" =>
       \A i \in 1..Len(AllResources(collection)) :
          AllResources(collection)[i].resourceType \in {"ec2", "rds", "ecs", "eks", "vpc"}
          => AllResources(collection)[i].region
               = PrimaryRegion(collection.accountId)

\* The accounts whose active flag is false.
InactiveAccountIds ==
    {Accounts[i].accountId : i \in {j \in 1..Len(Accounts) : ~Accounts[j].isActive}}

\* The step in which a refresh operation has collected from the provider.
CollectedStep == pc' \in {"store", "storeOne"} /\ pc' # pc

\* C20 -- Refresh collects for active accounts only: no step of a refresh
\* collects for an inactive account, and none changes the persisted rows of
\* an inactive account.
C20_OnlyActiveAccountsRefreshed ==
    [][/\ CollectedStep => collection'.accountId \notin InactiveAccountIds
       /\ \A a \in InactiveAccountIds : RowsOf(db', a) = RowsOf(db, a)]_vars

-----------------------------------------------------------------------------
(* Claims: the account endpoints *)

\* C21 -- No answer of an account endpoint that carries account data (list,
\* get, create, update) contains an access key id or a secret access key.
C21_NoKeysInResponses ==
    \A i \in 1..Len(accountReply.data) :
       /\ accountReply.data[i].accessKeyId = ""
       /\ accountReply.data[i].secretAccessKey = ""

\* C22 -- A create or update whose access keys fail validation is answered
\* with an error and saves nothing: the accounts and the stored credentials
\* are what they were before the request.
C22_InvalidKeysRejected ==
    [][(accountReply'.invalidKeys /\ accountReply'.op \in {"create", "update"})
         => /\ accountReply'.status >= 400
            /\ accounts' = accounts
            /\ accountTable' = accountTable
            /\ credentialStore' = credentialStore]_vars

\* C27 -- No two stored accounts have the same accountId.
C27_AccountIdsUnique ==
    /\ \A i, j \in 1..Len(accounts) :
          accounts[i].accountId = accounts[j].accountId => i = j
    /\ \A i, j \in 1..Len(accountTable) :
          accountTable[i].accountId = accountTable[j].accountId => i = j

\* C28 -- Every persisted resource belongs to an existing account.
C28_NoOrphanResources ==
    /\ \A r \in Range(resources) :
          \E i \in 1..Len(accounts) : accounts[i].accountId = r.accountId
    /\ \A r \in db : r.accountId \in TableAccountIds

-----------------------------------------------------------------------------
(* Claims: the collection *)

\* C25: no partial snapshot is ever merged: the handler goes on to the store
\* only when all six collectors of the cycle have settled, each with its
\* resources or with a captured error, the snapshot handed over is what they
\* settled with, and nothing is written while a collector is pending.
C25_NoPartialSnapshotMerged ==
    [][/\ (pc' = "storeOne" /\ pc # "storeOne")
            => /\ fetch.pending = {}
               /\ collection'.accountId = fetch.accountId
               /\ collection'.resources = fetch.resources
               /\ collection'.errors = fetch.errors
       /\ db' # db
            => /\ fetch.pending = {}
               /\ collection.resources = fetch.resources
               /\ collection.errors = fetch.errors]_vars

\* A snapshot with both resources and a captured error has been merged.
C25_Witness ==
    /\ pc = "idle"
    /\ fetch.accountId = "555555555555"
    /\ fetch.pending = {}
    /\ fetch.errors # <<>>
    /\ \E r \in db : r.accountId = fetch.accountId /\ r.resourceType = "eks"

\* The records of one service the collector reads the tags of.
ReadForTags(service) ==
    SelectSeq(fetch.listed[service], LAMBDA n : n.nativeId # <<>>)

\* C26: normalization never fails on tags: when the snapshot is handed over,
\* every record a provider listed, of every type that carries tags, whatever
\* the shape of its tag data, is in the snapshot, with an empty tag map
\* unless the tags are a list of pairs.
C26_TagsNeverFail ==
    pc = "storeOne" =>
       \A service \in ServiceSet \ {"s3"} :
          /\ Len(collection.resources[service]) = Len(ReadForTags(service))
          /\ \A i \in 1..Len(ReadForTags(service)) :
                collection.resources[service][i].tags =
                   IF ReadForTags(service)[i].TagShape = "list"
                   THEN extractTags(ReadForTags(service)[i].Tags)
                   ELSE << >>

-----------------------------------------------------------------------------
(* Claims: concurrent requests *)

\* The resources of one type in a request's snapshot that the table holds
\* as the snapshot has them.
AppliedOfType(w, type) ==
    {r \in Range(workers[w].all) :
        /\ r.resourceType = type
        /\ \E x \in WithoutLastUpdated(db) :
              x = [id |-> r.id, accountId |-> r.accountId, region |-> r.region,
                   resourceType |-> r.resourceType, name |-> r.name,
                   arn |-> r.arn, tags |-> r.tags, status |-> r.status]}

\* Some request in the given position has applied part, and only part, of
\* what its snapshot holds for one type.
PartlyApplied(position) ==
    \E w \in 1..Len(workers) : \E type \in ServiceSet :
       /\ workers[w].pc = position
       /\ AppliedOfType(w, type) # {}
       /\ AppliedOfType(w, type) #
             {r \in Range(workers[w].all) : r.resourceType = type}

\* C23: the merge is atomic per (account, type): no query of the summary
\* reads the table while a merge under way has applied only part of its
\* snapshot's resources of one type, and a merge that failed leaves no type
\* partly applied.
C23_MergeAtomic ==
    [][/\ (summaryPc # "sent" /\ summaryPc' # summaryPc)
             => ~PartlyApplied("storing")
       /\ ~PartlyApplied("failed")']_vars

\* The table two requests leave when the first one's store runs to its end
\* before the second one's starts.
OneAfterTheOther(first, second) ==
    StoreFrom(StoreFrom({}, workers[first].all, 1, clock).table,
              workers[second].all, 1, clock).table

\* C24: merges of the same account are serialized: when two refreshes of
\* one account have both answered, the rows of each type are what storing
\* the two snapshots one after the other, in some order, leaves.
C24_MergesSerialized ==
    (/\ Len(workers) = 2
     /\ workers[1].pc = "done" /\ workers[2].pc = "done"
     /\ workers[1].accountId = workers[2].accountId)
       => \A type \in ServiceSet :
             \E order \in {<<1, 2>>, <<2, 1>>} :
                WithoutLastUpdated(RowsOfType(db, workers[1].accountId, type)) =
                WithoutLastUpdated(RowsOfType(OneAfterTheOther(order[1], order[2]),
                                              workers[1].accountId, type))

\* The sum of the counts of one grouping.
RECURSIVE SumOfCounts(_)
SumOfCounts(counts) ==
    IF DOMAIN counts = {} THEN 0
    ELSE LET v == CHOOSE v \in DOMAIN counts : TRUE
         IN  counts[v] + SumOfCounts([u \in DOMAIN counts \ {v} |-> counts[u]])

\* C29: every summary the backend sends is consistent with itself: total is
\* the sum of the counts by type, by status and by region.
C29_SummaryConsistent ==
    summaryPc = "sent" =>
       /\ summary.total = SumOfCounts(summary.byType)
       /\ summary.total = SumOfCounts(summary.byStatus)
       /\ summary.total = SumOfCounts(summary.byRegion)

-----------------------------------------------------------------------------
(* Claims: the dashboard *)

\* The filter fields of the filters object.
FilterFields == {"accountIds", "regions", "resourceTypes", "statuses", "search"}

\* C30: changing the page or the page size of the resource table leaves
\* every filter field as it was, and changing a field in the filter panel
\* keeps the other fields and sets offset to 0.
C30_PageChangeKeepsFilters ==
    [][/\ PaginationModelChange
            => \A key \in FilterFields : filters'[key] = filters[key]
       /\ FilterChange
            => /\ filters'.offset = 0
               /\ Cardinality({key \in FilterFields \cup {"limit"} :
                                  filters'[key] # filters[key]}) <= 1]_vars

====
